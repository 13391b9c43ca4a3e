--------------------------- MODULE DarlingSyscall ---------------------------
(***************************************************************************)
(* A system call of a macOS program on its way through Darling's           *)
(* user-space emulation: the libsyscall stub (bsdsyscalls/SYS.h and its    *)
(* users), the C bridge (syscall_cbridge.c), the Unix dispatcher           *)
(* (syscall.c), the implementation of the call (bsd/impl), the host kernel *)
(* it calls, and the way back to the caller through cerror (errno.c).      *)
(*                                                                         *)
(* Everything between the stub and the host kernel is ordinary user code.  *)
(* Threads run it concurrently, and a signal handler may run a call of its *)
(* own in the middle of another one.  An activation is one call in         *)
(* progress: <<t, d>> is the one at nesting level d of thread t, and only  *)
(* the innermost activation of a thread moves.  The log of the functions,  *)
(* its lock and who waits for whom are in LoggedSyscall.                   *)
(***************************************************************************)
EXTENDS Integers, Sequences, CBridge, SockaddrFixup

CONSTANTS
    Thread,     \* the threads of the program
    MaxDepth,   \* bound: calls in progress on one thread (1 + nested signal handlers)
    Host,       \* "linux" or "apple": the #if branches of bsd/impl
    Call,       \* what the program calls, see CallRecord
    Errno,      \* the errno values the host kernel answers with
    Count,      \* the byte counts the host kernel answers with
    Fd,         \* the descriptors the host kernel hands out
    Address     \* the sender addresses the host kernel reports

-----------------------------------------------------------------------------
(***************************************************************************)
(* The program's side: a call is what eax holds at the trap, the C         *)
(* arguments, the tail of the stub, and the program's out-parameters.      *)
(***************************************************************************)
User == [fd0 : Int32, fd1 : Int32, socklen : Int32, sockaddr : Sockaddr]

CallRecord == [eax : Int32, arg : Seq(Word), tail : {"plain", "pipe"}, user : User]

\* sizeof(struct sockaddr_storage); a length of 0 says that there is no sender
\* address, which is what Linux reports for a connected stream socket.
SS_MAXSIZE == 128
AddressLength == 0 .. SS_MAXSIZE
AddressRecord == [family : Byte, addrlen : AddressLength, path : Nat]

ASSUME ConstantsAssumption ==
    /\ MaxDepth \in Nat \ {0}
    /\ Host \in {"linux", "apple"}
    /\ Call \subseteq CallRecord
    /\ Errno \subseteq ErrnoValue
    /\ Count \subseteq NonNegative
    /\ Fd \subseteq NonNegative
    /\ Address \subseteq AddressRecord

\* Only ___pipe.S has a tail of its own, and its number is pipe's.
ASSUME TailAssumption ==
    \A c \in Call : c.tail = "pipe" => class_mask(c.eax) = SYSCALL_CLASS_UNIX /\ get_sysnum(c.eax) = 42

\* ENOSYS of the build's <errno.h>
ENOSYS == HostErrno[38]

-----------------------------------------------------------------------------
(***************************************************************************)
(* The state.                                                              *)
(***************************************************************************)
Act == Thread \X (1 .. MaxDepth)

VARIABLES
    depth,         \* depth[t]: calls in progress on thread t
    pc,            \* where an activation is
    request,       \* the call it carries out
    regs, carry,   \* the register block the assembly bridge pushed, CF in rflag
    builder, retargs, error,   \* the locals of _darling_handle_x86_64_syscall
    hostcall,      \* the call made to the host kernel
    answer,        \* what the host kernel answered
    user,          \* the program's out-parameters
    darling_errno, \* darling_errno[t]
    host_errno     \* host_errno[t]: errno of the C library that the Apple branches call

vars == <<depth, pc, request, regs, carry, builder, retargs, error,
          hostcall, answer, user, darling_errno, host_errno>>

PC == {"idle", "entry", "unix", "sys_syscall", "sys_write", "sys_recvfrom", "sys_pipe",
       "host", "answered", "set_return", "resume", "returned", "trap"}

HostFunc == {"none", "write", "recvfrom", "pipe"}
Answer == [err : ErrnoValue \cup {0}, val : NonNegative, val2 : NonNegative, from : AddressRecord]

\* Mutant: static locals, one set for the whole process.
Frame_Static(a) == CHOOSE b \in Act : TRUE

\* The frame that holds builder, retargs and error: they are automatic, so an
\* activation has a frame of its own.
Frame(a) == a

\* Mutant: darling_errno without __thread.
ErrnoCell_Shared(t) == CHOOSE u \in Thread : TRUE

\* The cell behind darling_errno: it is __thread, so a thread has its own.
ErrnoCell(t) == t

Top(a) == a[2] = depth[a[1]]

NoAddress == [family |-> 0, addrlen |-> 0, path |-> 0]
NoAnswer == [err |-> 0, val |-> 0, val2 |-> 0, from |-> NoAddress]
NoHostCall == [nr |-> "none", args |-> <<>>]
NoUser == [fd0 |-> 0, fd1 |-> 0, socklen |-> 0,
           sockaddr |-> [bsd_length |-> 0, bsd_family |-> 0, path |-> 0]]
NoRequest == [eax |-> 0, arg |-> <<>>, tail |-> "plain", user |-> NoUser]
JunkRegs == [rax |-> Junk, rdi |-> Junk, rsi |-> Junk, rdx |-> Junk, rcx |-> Junk,
             r8 |-> Junk, r9 |-> Junk, r10 |-> Junk, r11 |-> Junk]
JunkRetargs == [syscall_type |-> "INVALID", result_type |-> "INVALID",
                result0 |-> AsInt(Junk), result1 |-> AsInt(Junk)]

Init ==
    /\ depth = [t \in Thread |-> 0]
    /\ pc = [a \in Act |-> "idle"]
    /\ request = [a \in Act |-> NoRequest]
    /\ regs = [a \in Act |-> JunkRegs]
    /\ carry = [a \in Act |-> FALSE]
    /\ builder = [a \in Act |-> partial_args_init(JunkRegs)]
    /\ retargs = [a \in Act |-> JunkRetargs]
    /\ error = [a \in Act |-> 0]
    /\ hostcall = [a \in Act |-> NoHostCall]
    /\ answer = [a \in Act |-> NoAnswer]
    /\ user = [a \in Act |-> NoUser]
    /\ darling_errno = [t \in Thread |-> 0]
    /\ host_errno = [t \in Thread |-> 0]

-----------------------------------------------------------------------------
(***************************************************************************)
(* The program and the stubs.                                              *)
(***************************************************************************)
\* The program calls a stub, or a signal handler does while another call of the
\* thread is in progress.  CF is whatever the code before the call left.
BeginCall(t, c) ==
    LET a == <<t, depth[t] + 1>>
    IN  /\ depth[t] < MaxDepth
        /\ depth[t] > 0 => pc[<<t, depth[t]>>] # "trap"
        /\ depth' = [depth EXCEPT ![t] = @ + 1]
        /\ pc' = [pc EXCEPT ![a] = "entry"]
        /\ request' = [request EXCEPT ![a] = c]
        /\ regs' = [regs EXCEPT ![a] = EntryRegs(c.eax, c.arg)]
        /\ \E cf \in BOOLEAN : carry' = [carry EXCEPT ![a] = cf]
        /\ user' = [user EXCEPT ![a] = c.user]
        /\ UNCHANGED <<builder, retargs, error, hostcall, answer, darling_errno, host_errno>>

\* darling_set_cerror(0), as the tests call it before a call.  A signal handler may, too,
\* while a call of the thread is in progress.
SetCerror(t) ==
    /\ depth[t] > 0 => pc[<<t, depth[t]>>] # "trap"
    /\ darling_errno' = [darling_errno EXCEPT ![ErrnoCell(t)] = 0]
    /\ UNCHANGED <<depth, pc, request, regs, carry, builder, retargs, error, hostcall, answer,
                   user, host_errno>>

MinusOne == SignExtend(-1)

\* jnb: with CF clear the tail of the stub runs (___pipe.S stores both
\* descriptors); with CF set darling_cerror stores the int in rdi and returns a
\* 128-bit -1 in rdx:rax.
StubReturn(a) ==
    /\ pc[a] = "resume"
    /\ pc' = [pc EXCEPT ![a] = "returned"]
    /\ \/ /\ carry[a]
          /\ darling_errno' = [darling_errno EXCEPT ![ErrnoCell(a[1])] = AsInt(regs[a].rax)]
          /\ regs' = [regs EXCEPT ![a] = [@ EXCEPT !.rax = MinusOne, !.rdx = MinusOne]]
          /\ UNCHANGED user
       \/ /\ ~carry[a]
          /\ request[a].tail = "pipe"
          /\ user' = [user EXCEPT ![a] = [@ EXCEPT !.fd0 = AsInt(regs[a].rax),
                                                  !.fd1 = AsInt(regs[a].rdx)]]
          /\ regs' = [regs EXCEPT ![a] = [@ EXCEPT !.rax = ZeroExtend(0)]]
          /\ UNCHANGED darling_errno
       \/ /\ ~carry[a]
          /\ request[a].tail = "plain"
          /\ UNCHANGED <<regs, user, darling_errno>>
    /\ UNCHANGED <<depth, request, carry, builder, retargs, error, hostcall, answer, host_errno>>

\* The program goes on after the call, or the signal handler returns.
Return(a) ==
    /\ pc[a] = "returned"
    /\ depth' = [depth EXCEPT ![a[1]] = @ - 1]
    /\ pc' = [pc EXCEPT ![a] = "idle"]
    /\ request' = [request EXCEPT ![a] = NoRequest]
    /\ regs' = [regs EXCEPT ![a] = JunkRegs]
    /\ carry' = [carry EXCEPT ![a] = FALSE]
    /\ builder' = [builder EXCEPT ![Frame(a)] = partial_args_init(JunkRegs)]
    /\ retargs' = [retargs EXCEPT ![Frame(a)] = JunkRetargs]
    /\ error' = [error EXCEPT ![Frame(a)] = 0]
    /\ hostcall' = [hostcall EXCEPT ![a] = NoHostCall]
    /\ answer' = [answer EXCEPT ![a] = NoAnswer]
    /\ user' = [user EXCEPT ![a] = NoUser]
    /\ UNCHANGED <<darling_errno, host_errno>>

-----------------------------------------------------------------------------
(***************************************************************************)
(* The bridge and the dispatcher.                                          *)
(***************************************************************************)
\* Mutant: whatever CF was is reported as the outcome of the call.
ClearCarry_Forgotten(cf) == cf

\* regs->rflag &= ~X86_64_FLAG_CARRY
ClearCarry(cf) == FALSE

\* _darling_handle_x86_64_syscall up to its switch on the class.  The Mach,
\* machine-dependent and diagnostics handlers return 0 without looking at the
\* call, as does the default branch.
HandleSyscall(a) ==
    /\ pc[a] = "entry"
    /\ carry' = [carry EXCEPT ![a] = ClearCarry(@)]
    /\ builder' = [builder EXCEPT ![Frame(a)] = partial_args_init(regs[a])]
    /\ retargs' = [retargs EXCEPT ![Frame(a)] = JunkRetargs]
    /\ error' = [error EXCEPT ![Frame(a)] = 0]
    /\ pc' = [pc EXCEPT ![a] =
                 IF class_mask(AsInt(regs[a].rax)) = SYSCALL_CLASS_UNIX
                 THEN "unix" ELSE "set_return"]
    /\ UNCHANGED <<depth, request, regs, hostcall, answer, user, darling_errno, host_errno>>

\* What darling_common_syscall_unix knows after it has looked at the number.
UnixBuilder(b) == [b EXCEPT !.indirect = (b.sysnum = 0)]
UnixNumber(b) == IF b.sysnum = 0 THEN AsInt(b.arg[1]) ELSE b.sysnum

\* darling_common_syscall_unix up to the call of metadata->func.  A number out of
\* range and one without a function both end in ENOSYS.
DispatchUnix(a) ==
    LET f   == Frame(a)
        b   == UnixBuilder(builder[f])
        row == UnixRow(UnixNumber(builder[f]))
        b2  == [b EXCEPT !.arg_count = row.arg_count]
    IN  /\ pc[a] = "unix"
        /\ retargs' = [retargs EXCEPT ![f] = [@ EXCEPT !.syscall_type = "UNIX",
                                                      !.result0 = 0, !.result1 = 0]]
        /\ \/ /\ row.func = "NULL"
              /\ builder' = [builder EXCEPT ![f] = b]
              /\ error' = [error EXCEPT ![f] = ENOSYS]
              /\ pc' = [pc EXCEPT ![a] = "set_return"]
           \/ /\ row.func # "NULL"
              /\ builder' = [builder EXCEPT ![f] = full_args_init(b2, regs[a], request[a].arg)]
              /\ pc' = [pc EXCEPT ![a] = IF TooManyParams(b2) THEN "trap" ELSE row.func]
              /\ UNCHANGED error
        /\ UNCHANGED <<depth, request, regs, carry, hostcall, answer, user, darling_errno,
                       host_errno>>

\* darling_x86_64_syscall_set_return_values, and the pops of the assembly bridge.
SetReturnValues(a) ==
    LET ra == retargs[Frame(a)]
        e  == error[Frame(a)]
    IN  /\ pc[a] = "set_return"
        /\ pc' = [pc EXCEPT ![a] = IF Traps(ra, e) THEN "trap" ELSE "resume"]
        /\ regs' = [regs EXCEPT ![a] = ReturnRegs(ra, @, e)]
        /\ carry' = [carry EXCEPT ![a] = @ \/ ReturnCarry(ra, e)]
        /\ UNCHANGED <<depth, request, builder, retargs, error, hostcall, answer, user,
                       darling_errno, host_errno>>

-----------------------------------------------------------------------------
(***************************************************************************)
(* bsd/impl: each function up to its call of the host, and from there on.  *)
(***************************************************************************)
\* Leaves the C function with the given error and results.
LeaveImpl(a, e, r0, r1) ==
    /\ error' = [error EXCEPT ![Frame(a)] = e]
    /\ retargs' = [retargs EXCEPT ![Frame(a)] = [@ EXCEPT !.result0 = r0, !.result1 = r1]]
    /\ pc' = [pc EXCEPT ![a] = "set_return"]
    /\ UNCHANGED <<depth, request, regs, carry, builder, hostcall, answer, darling_errno,
                   host_errno>>

\* An indirect call of number 0 is refused.
SysSyscall(a) ==
    LET ra == retargs[Frame(a)]
    IN  /\ pc[a] = "sys_syscall"
        /\ LeaveImpl(a, ENOSYS, ra.result0, ra.result1)
        /\ UNCHANGED user

CallHost(a, type, nr, args) ==
    /\ retargs' = [retargs EXCEPT ![Frame(a)] = [@ EXCEPT !.result_type = type]]
    /\ hostcall' = [hostcall EXCEPT ![a] = [nr |-> nr, args |-> args]]
    /\ pc' = [pc EXCEPT ![a] = "host"]
    /\ UNCHANGED <<depth, request, regs, carry, builder, error, answer, user, darling_errno,
                   host_errno>>

\* int fd, const void* mem, int len
SysWrite(a) ==
    LET arg == builder[Frame(a)].arg
    IN  /\ pc[a] = "sys_write"
        /\ CallHost(a, "SSIZE_T", "write",
                    <<SignExtend(AsInt(arg[1])), arg[2], SignExtend(AsInt(arg[3]))>>)

\* int fd, void* buf, unsigned long len, int flags, void* from, int* socklen.
\* linux_flags is computed and not used.
SysRecvfrom(a) ==
    LET arg == builder[Frame(a)].arg
    IN  /\ pc[a] = "sys_recvfrom"
        /\ CallHost(a, "INT_T", "recvfrom",
                    <<SignExtend(AsInt(arg[1])), arg[2], arg[3],
                      SignExtend(AsInt(arg[4])), arg[5], arg[6]>>)

\* Mutant: result_type is not set.
SysPipe_NoResultType(a) ==
    /\ pc[a] = "sys_pipe"
    /\ CallHost(a, "INVALID", "pipe", <<>>)

\* The host fills the local fd[2].
SysPipe(a) ==
    /\ pc[a] = "sys_pipe"
    /\ CallHost(a, "INT_T", "pipe", <<>>)

-----------------------------------------------------------------------------
(***************************************************************************)
(* The host kernel (external): it answers a call once, when it likes and   *)
(* perhaps never.                                                          *)
(***************************************************************************)
\* A sender address is written as far as the host's headers define it: the family
\* in 16 bits on Linux, a length and a family byte on an Apple host.
WriteSockaddr(sa, ad) ==
    IF ad.addrlen = 0 THEN sa
    ELSE IF Host = "linux"
    THEN [bsd_length |-> ad.family % 256, bsd_family |-> 0, path |-> ad.path]
    ELSE [bsd_length |-> ad.addrlen, bsd_family |-> ad.family, path |-> ad.path]

\* An address longer than its buffer is cut off, with its whole length reported.  Bound:
\* a local path is never cut, because what strcpy then reads is not defined.
Reportable(ad, room) == ad.addrlen <= room \/ (room >= HeaderSize /\ ad.path = 0)

\* *from and *socklen
Filled(u, ad) == [u EXCEPT !.socklen = ad.addrlen, !.sockaddr = WriteSockaddr(@, ad)]

\* No more bytes are transferred than were asked for.
Transferable(len, n) == len.hi = 0 /\ n <= len.lo

\* The host gives answer k and leaves u in the program's out-parameters.  An Apple host
\* is called through its C library, which keeps an error in the thread's errno; a call that
\* succeeds leaves that as it was.
Answered(a, k, u) ==
    /\ pc[a] = "host"
    /\ pc' = [pc EXCEPT ![a] = "answered"]
    /\ answer' = [answer EXCEPT ![a] = k]
    /\ user' = [user EXCEPT ![a] = u]
    /\ host_errno' = [host_errno EXCEPT ![a[1]] =
                          IF Host = "apple" /\ k.err # 0 THEN k.err ELSE @]
    /\ UNCHANGED <<depth, request, regs, carry, builder, retargs, error, hostcall,
                   darling_errno>>

Refusal(e) == [err |-> e, val |-> 0, val2 |-> 0, from |-> NoAddress]
Success(val, val2, from) == [err |-> 0, val |-> val, val2 |-> val2, from |-> from]

HostRefuses(a) == \E e \in Errno : Answered(a, Refusal(e), user[a])

\* A write, or a recvfrom that does not ask for the sender.
HostTransfers(a) ==
    /\ \/ hostcall[a].nr = "write"
       \/ hostcall[a].nr = "recvfrom" /\ hostcall[a].args[5] = NULL
    /\ \E n \in Count :
          /\ Transferable(hostcall[a].args[3], n)
          /\ Answered(a, Success(n, 0, NoAddress), user[a])

HostReceives(a) ==
    /\ hostcall[a].nr = "recvfrom"
    /\ hostcall[a].args[5] # NULL
    /\ \E n \in Count, ad \in Address :
          /\ Transferable(hostcall[a].args[3], n)
          /\ Reportable(ad, user[a].socklen)
          /\ Answered(a, Success(n, 0, ad), Filled(user[a], ad))

HostMakesPipe(a) ==
    /\ hostcall[a].nr = "pipe"
    /\ \E f, g \in Fd :
          /\ f # g
          /\ Answered(a, Success(f, g, NoAddress), user[a])

HostAnswer(a) == HostRefuses(a) \/ HostTransfers(a) \/ HostReceives(a) \/ HostMakesPipe(a)

-----------------------------------------------------------------------------
(***************************************************************************)
(* bsd/impl after the host's answer.  A failed call leaves result alone.   *)
(***************************************************************************)
\* The error a call returns that the host refused with err, if nobody interferes.  Linux
\* answers with a negative number, which errno_linux_to_bsd keeps negative.
HostError(err) == IF Host = "linux" THEN errno_linux_to_bsd(-err) ELSE err

\* Mutant: the errno of the emulator in place of the C library's.
ErrorRead_Darling(a) ==
    IF Host = "linux" THEN HostError(answer[a].err) ELSE darling_errno[a[1]]

\* What a failed call returns: the Linux branches convert their ret, the Apple ones read
\* errno, which a signal handler's call may have overwritten meanwhile.
ErrorRead(a) == IF Host = "linux" THEN HostError(answer[a].err) ELSE host_errno[a[1]]

\* Mutant: a call that failed is made again.
HostFailed_Again(a) ==
    /\ answer[a].err # 0
    /\ pc' = [pc EXCEPT ![a] = "host"]
    /\ UNCHANGED <<depth, request, regs, carry, builder, retargs, error, hostcall, answer,
                   user, darling_errno, host_errno>>

\* if (ret < 0) return ...
HostFailed(a) ==
    LET ra == retargs[Frame(a)]
    IN  /\ answer[a].err # 0
        /\ LeaveImpl(a, ErrorRead(a), ra.result0, ra.result1)
        /\ UNCHANGED user

FinishWrite(a) ==
    /\ pc[a] = "answered"
    /\ hostcall[a].nr = "write"
    /\ \/ HostFailed(a)
       \/ /\ answer[a].err = 0
          /\ LeaveImpl(a, 0, answer[a].val, 0)
          /\ UNCHANGED user

FinishPipe(a) ==
    /\ pc[a] = "answered"
    /\ hostcall[a].nr = "pipe"
    /\ \/ HostFailed(a)
       \/ /\ answer[a].err = 0
          /\ LeaveImpl(a, 0, answer[a].val, answer[a].val2)
          /\ UNCHANGED user

\* Whether the address is converted in place: on Linux, if one was asked for.
Converts(a) == Host = "linux" /\ hostcall[a].args[5] # NULL

FinishRecvfrom(a) ==
    LET result1 == retargs[Frame(a)].result1
        fixed   == sockaddr_fixup_from_linux(user[a].sockaddr, user[a].socklen)
    IN  /\ pc[a] = "answered"
        /\ hostcall[a].nr = "recvfrom"
        /\ \/ HostFailed(a)
           \/ /\ answer[a].err = 0
              /\ Converts(a)
              /\ user' = [user EXCEPT ![a] = [@ EXCEPT !.socklen = fixed.ret,
                                                      !.sockaddr = fixed.out]]
              /\ LeaveImpl(a, 0, IF fixed.ret < 0 THEN fixed.ret ELSE answer[a].val, result1)
           \/ /\ answer[a].err = 0
              /\ ~Converts(a)
              /\ LeaveImpl(a, 0, answer[a].val, result1)
              /\ UNCHANGED user

-----------------------------------------------------------------------------
\* What the emulator does of its own accord, once the thread runs.
Emulate(a) ==
    \/ HandleSyscall(a) \/ DispatchUnix(a) \/ SetReturnValues(a) \/ StubReturn(a)
    \/ SysSyscall(a)    \/ SysWrite(a)     \/ SysRecvfrom(a)     \/ SysPipe(a)
    \/ FinishWrite(a)   \/ FinishPipe(a)   \/ FinishRecvfrom(a)

Step(a) == Top(a) /\ (Emulate(a) \/ HostAnswer(a) \/ Return(a))

Next ==
    \/ \E t \in Thread, c \in Call : BeginCall(t, c)
    \/ \E t \in Thread : SetCerror(t)
    \/ \E a \in Act : Step(a)

Spec == Init /\ [][Next]_vars

\* A thread has activations exactly at the levels up to its depth.
LevelsInUse == \A a \in Act : pc[a] = "idle" <=> a[2] > depth[a[1]]

\* Every variable holds a value of its C type, and the levels of a thread are in
\* use from the bottom: no step leaves a half-finished call behind.
TypeOK ==
    /\ depth \in [Thread -> 0 .. MaxDepth]
    /\ pc \in [Act -> PC]
    /\ request \in [Act -> CallRecord]
    /\ regs \in [Act -> RegBlock]
    /\ carry \in [Act -> BOOLEAN]
    /\ builder \in [Act -> Builder]
    /\ retargs \in [Act -> Retargs]
    /\ error \in [Act -> Int32]
    /\ hostcall \in [Act -> [nr : HostFunc, args : Seq(Word)]]
    /\ answer \in [Act -> Answer]
    /\ user \in [Act -> User]
    /\ darling_errno \in [Thread -> Int32]
    /\ host_errno \in [Thread -> ErrnoValue \cup {0}]
    /\ LevelsInUse
=============================================================================
