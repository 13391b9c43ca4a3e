--------------------- MODULE DarlingSyscallProperties ---------------------
(***************************************************************************)
(* What makes DarlingSyscall correct.                                      *)
(***************************************************************************)
EXTENDS DarlingSyscall

-----------------------------------------------------------------------------
(***************************************************************************)
(* What the program means by a call, read off the C prototypes and not off *)
(* the registers: the reference the properties compare the emulator with.  *)
(***************************************************************************)
\* The function the program asks for ("ignored" for the classes the emulator does
\* not serve, "refused" for a Unix number it does not have) and its C arguments.
Meant(c) ==
    LET number == get_sysnum(c.eax)
        indirect == number = 0
        n == IF indirect THEN AsInt(CArg(c.arg, 1)) ELSE number
        first == IF indirect THEN 1 ELSE 0
    IN  [func |-> IF class_mask(c.eax) # SYSCALL_CLASS_UNIX THEN "ignored"
                  ELSE IF n = 4 THEN "write"
                  ELSE IF n = 29 THEN "recvfrom"
                  ELSE IF n = 42 THEN "pipe"
                  ELSE "refused",
         arg |-> [i \in 1..6 |-> CArg(c.arg, first + i)]]

Served == {"write", "recvfrom", "pipe"}

IntParam(w) == SignExtend(AsInt(w))

\* ssize_t write(int, const void*, size_t); int pipe(int[2]);
\* ssize_t recvfrom(int, void*, size_t, int, struct sockaddr*, socklen_t*)
DeclaredArgs(func, arg) ==
    CASE func = "write"    -> <<IntParam(arg[1]), arg[2], arg[3]>>
      [] func = "recvfrom" -> <<IntParam(arg[1]), arg[2], arg[3], IntParam(arg[4]),
                                arg[5], arg[6]>>
      [] func = "pipe"     -> <<>>

\* sys_write handles its length as an int; lengths beyond are left to
\* WholeLengthDelivered.
FitsInt(func, arg) == func = "write" => arg[3] = IntParam(arg[3])

\* Linux's EPERM and ENOENT come back from errno_linux_to_bsd as -1 and -2, which
\* set_return_values takes for ERESTART and EJUSTRETURN; they are left to
\* EveryFailureReported.
Swallowed(err) == Host = "linux" /\ HostError(err) \in {ERESTART, EJUSTRETURN}

\* Whether call c, to which the host answered k, fails.
Fails(c, k) ==
    \/ Meant(c).func = "refused"
    \/ Meant(c).func \in Served /\ k.err # 0

\* Whether the error that an implementation returns is its own call's.  The Apple branches
\* read errno after the call, and a signal handler's call may have failed since.
OwnErrno == Host = "linux" \/ MaxDepth = 1

\* Error e of an implementation fits the host's refusal with err.
ErrorFits(err, e) == IF OwnErrno THEN e = HostError(err) ELSE e \in Errno

\* Errno f says why call c, answered k, failed, up to the sign, which Linux builds get
\* wrong (see ErrnoAsDocumented).  With handlers on an Apple host no more is promised than
\* that it is one of the host's errnos: it may be that of a handler's call.
SaysWhy(c, k, f) ==
    IF Meant(c).func = "refused" THEN Abs(f) = ENOSYS
    ELSE IF OwnErrno THEN Abs(f) = Abs(HostError(k.err))
    ELSE f \in Errno

\* What the program sees of activation a when its stub returns.
Result(a) == [rax |-> regs[a].rax, rdx |-> regs[a].rdx, user |-> user[a]]

\* Result r fits call c and the host's answer k: the 64-bit count of write, the int of
\* recvfrom, both descriptors of pipe in the program's array (or in eax and edx when pipe
\* was called through syscall()), and -1 if the call failed or is refused.  Calls of the
\* classes that are not served return with rax as it was.
Fits(c, k, r) ==
    LET func == Meant(c).func
    IN  /\ func = "ignored" => r.rax = ZeroExtend(c.eax)
        /\ Fails(c, k) /\ ~Swallowed(k.err) => r.rax = MinusOne
        /\ func = "write" /\ k.err = 0 => r.rax = ZeroExtend(k.val)
        /\ func = "recvfrom" /\ k.err = 0 => AsInt(r.rax) = k.val
        /\ func = "pipe" /\ k.err = 0 =>
                IF c.tail = "pipe"
                THEN AsInt(r.rax) = 0 /\ r.user.fd0 = k.val /\ r.user.fd1 = k.val2
                ELSE AsInt(r.rax) = k.val /\ AsInt(r.rdx) = k.val2

\* errno may go from e to f when call c, answered k, returns: to one that says why, if the
\* call failed, and nowhere if it succeeded, is ignored or its failure is swallowed.
ErrnoFits(c, k, e, f) ==
    IF Fails(c, k) /\ ~Swallowed(k.err) THEN SaysWhy(c, k, f) ELSE f = e

-----------------------------------------------------------------------------
(***************************************************************************)
(* Properties.                                                             *)
(***************************************************************************)
\* Neither __builtin_trap() of syscall_cbridge.c is ever executed: no row of the
\* table has more parameters than args->arg has room for, with the shift of an
\* indirect call, and whatever reaches the switch of set_return_values without an
\* error has had its result_type set by the function that was called, although
\* ERESTART, EJUSTRETURN and the paths that call no function arrive there too.
NoTrap == \A a \in Act : pc[a] # "trap"

\* The host kernel is asked for exactly what the C caller asked for: the same
\* function with the same arguments in the same places, whether the call was direct
\* or went through syscall(), whose arguments are one register further on and
\* whose last one is on the stack above four words of frames and return addresses;
\* whatever other threads or a signal handler do between the trap and the call.
Delivers(c, q) ==
    LET m == Meant(c)
    IN  /\ m.func \in Served
        /\ q.nr = m.func
        /\ FitsInt(m.func, m.arg) => q.args = DeclaredArgs(m.func, m.arg)

Delivered(a) == Delivers(request[a], hostcall[a])

ArgumentsDelivered == \A a \in Act : pc[a] = "host" => Delivered(a)

\* What the program sees when the stub returns is what the host kernel answered to
\* this very call, see Fits.
OutcomeFaithful ==
    \A a \in Act :
        pc[a] = "returned" =>
            /\ Meant(request[a]).func \in Served => hostcall[a].nr = Meant(request[a]).func
            /\ Fits(request[a], answer[a], Result(a))

\* Whether the program's out-parameters u report the sender ad, see SenderAddressDelivered.
SenderReported(ad, u) ==
    LET family == IF Host = "linux" THEN sfamily_linux_to_bsd(ad.family) ELSE ad.family
        local  == family = HostPF["LOCAL"]
    IN  /\ u.sockaddr.bsd_family = family
        /\ u.sockaddr.bsd_length = u.socklen
        /\ local /\ Host = "linux" => u.socklen = HeaderSize + u.sockaddr.path + 1
        /\ ~local => u.socklen = ad.addrlen
        /\ ad.path < PathSize => u.sockaddr.path = ad.path

\* A recvfrom that reports a sender gives it in BSD form: the host's number of its
\* family in the family byte, its length in the length byte and in *socklen, a local
\* path with its NUL counted; and nothing of the answer is lost in between.
SenderAddressDelivered ==
    \A a \in Act :
        /\ pc[a] = "returned"
        /\ Meant(request[a]).func = "recvfrom"
        /\ answer[a].err = 0
        /\ answer[a].from.addrlen > 0
        => SenderReported(answer[a].from, user[a])

\* What a step may do to darling_errno, see ErrnoIsOwn.
ErrnoStep ==
    \A a \in Act :
        /\ pc[a] = "resume" /\ pc'[a] = "returned" =>
              ErrnoFits(request[a], answer[a], darling_errno[a[1]], darling_errno'[a[1]])
        /\ darling_errno'[a[1]] # darling_errno[a[1]] =>
              \/ UNCHANGED pc /\ darling_errno'[a[1]] = 0
              \/ \E d \in 1 .. MaxDepth : pc[<<a[1], d>>] = "resume" /\ carry[<<a[1], d>>]

\* darling_errno changes only when the program sets it to 0, or when a stub of the same
\* thread returns from a call that failed, and then to an errno that says why that call
\* failed (see SaysWhy); a call that succeeds or is ignored leaves it alone, whatever other
\* threads and signal handlers do meanwhile.
ErrnoIsOwn == [][ErrnoStep]_vars

(***************************************************************************)
(* The contract of a system call, and how the state of the emulator        *)
(* implements its state.                                                   *)
(***************************************************************************)
PhaseOf(a) ==
    CASE pc[a] = "idle"     -> "idle"
      [] pc[a] = "host"     -> "asked"
      [] pc[a] = "returned" -> "done"
      [] pc[a] = "trap"     -> "broken"
      [] OTHER -> IF hostcall[a].nr = "none" THEN "begun" ELSE "answered"

NoResult == [rax |-> Junk, rdx |-> Junk, user |-> NoUser]

Exchange(a) == [phase |-> PhaseOf(a), call |-> request[a], asked |-> hostcall[a],
                reply |-> answer[a],
                result |-> IF pc[a] = "returned" THEN Result(a) ELSE NoResult]

Exchanges == [a \in Act |-> Exchange(a)]

ThreadOf(a) == a[1]
NeedsHost(c) == Meant(c).func \in Served

Contract == INSTANCE SyscallContract WITH
    Activation <- Act, Demands <- Delivers, Outcome <- Fits, ErrnoAfter <- ErrnoFits,
    NoCall <- NoRequest, NoQuestion <- NoHostCall, NoReply <- NoAnswer,
    act <- Exchanges, errno <- darling_errno

\* The bridge, the dispatcher and bsd/impl keep the contract of a system call: every call
\* asks the host once at most and for what it demands, returns once and after its own
\* answer, with an outcome that fits, and touches the errno of its own thread only, at its
\* return, while other threads and signal handlers have calls of their own in progress.
ContractKept == Contract!Spec

-----------------------------------------------------------------------------
(***************************************************************************)
(* Inductive invariants: what must hold on the way for NoTrap and for      *)
(* ArgumentsDelivered to hold at its end.                                  *)
(***************************************************************************)
\* From the host's call on, and at the return of every path, set_return_values will
\* find an error or a result_type.
WillNotTrap(a) ==
    /\ pc[a] # "trap"
    /\ pc[a] \in {"host", "answered"} => retargs[Frame(a)].result_type # "INVALID"
    /\ pc[a] = "set_return" => ~Traps(retargs[Frame(a)], error[Frame(a)])

ResultTypeSet == \A a \in Act : WillNotTrap(a)

\* Until the dispatch the registers are those of the trap; from then on the
\* argument array holds the C arguments.
OnTheWay(a) ==
    LET c == request[a]
        m == Meant(c)
        b == builder[Frame(a)]
    IN  /\ pc[a] \in {"entry", "unix"} => regs[a] = EntryRegs(c.eax, c.arg)
        /\ pc[a] = "unix" => /\ m.func # "ignored"
                             /\ b = partial_args_init(regs[a])
        /\ pc[a] = "sys_write" => /\ m.func = "write"
                                  /\ \A i \in 1..3 : b.arg[i] = m.arg[i]
        /\ pc[a] = "sys_recvfrom" => /\ m.func = "recvfrom"
                                     /\ \A i \in 1..6 : b.arg[i] = m.arg[i]
        /\ pc[a] = "sys_pipe" => m.func = "pipe"

\* A call that is delivered, or on its way.
OnTrack(a) == OnTheWay(a) /\ (pc[a] = "host" => Delivered(a))

AllOnTrack == \A a \in Act : OnTrack(a)

-----------------------------------------------------------------------------
(***************************************************************************)
(* Inductive invariant for OutcomeFaithful and ContractKept: what is known *)
(* of the exchange with the host kernel, and what has become of its        *)
(* answer, at every point of a call.                                       *)
(***************************************************************************)
InImpl == {"sys_syscall", "sys_write", "sys_recvfrom", "sys_pipe"}
AtHost == {"host", "answered"}

NotAsked(a) == hostcall[a] = NoHostCall /\ answer[a] = NoAnswer

ResultType(func) == IF func = "write" THEN "SSIZE_T" ELSE "INT_T"

\* The call is on its way to the host kernel, or there.
Outward(a) ==
    LET m == Meant(request[a])
    IN  /\ pc[a] = "idle" => request[a] = NoRequest
        /\ request[a].tail = "pipe" => m.func = "pipe"
        /\ pc[a] \in {"idle", "entry", "unix"} \cup InImpl => NotAsked(a)
        /\ pc[a] \in {"unix"} \cup InImpl \cup AtHost => ~carry[a]
        /\ pc[a] \in InImpl \cup AtHost => retargs[a].syscall_type = "UNIX"
        /\ pc[a] = "sys_syscall" => m.func = "refused"
        /\ pc[a] = "host" => answer[a] = NoAnswer
        /\ pc[a] \in AtHost => /\ m.func \in Served
                              /\ hostcall[a].nr = m.func
                              /\ retargs[a].result_type = ResultType(m.func)
        /\ pc[a] = "answered" /\ hostcall[a].nr = "recvfrom" /\ answer[a].err = 0 /\ Converts(a)
                => user[a].socklen >= 0

\* The host kernel has been asked exactly if the call is a served one.
Asked(a) ==
    LET func == Meant(request[a]).func
    IN  IF func \in Served THEN hostcall[a].nr = func ELSE NotAsked(a)

\* The implementation has come to a result, which the registers do not hold yet.
Decided(a) ==
    LET c == request[a]
        m == Meant(c)
        k == answer[a]
        ra == retargs[a]
    IN  pc[a] = "set_return" =>
            /\ ~carry[a]
            /\ Asked(a)
            /\ m.func = "ignored" =>
                    regs[a].rax = ZeroExtend(c.eax) /\ ra.syscall_type # "UNIX"
            /\ m.func # "ignored" => ra.syscall_type = "UNIX"
            /\ m.func = "refused" => error[a] = ENOSYS
            /\ m.func \in Served => ra.result_type = ResultType(m.func)
            /\ m.func \in Served /\ k.err # 0 => ErrorFits(k.err, error[a])
            /\ m.func \in Served /\ k.err = 0 =>
                    /\ error[a] = 0
                    /\ ra.result0 = k.val
                    /\ m.func = "write" => ra.result1 = 0
                    /\ m.func = "pipe" => ra.result1 = k.val2

\* The registers hold the result, or CF and the errno.
Resuming(a) ==
    LET c == request[a]
        m == Meant(c)
        k == answer[a]
    IN  pc[a] = "resume" =>
            /\ Asked(a)
            /\ carry[a] <=> Fails(c, k) /\ ~Swallowed(k.err)
            /\ carry[a] => SaysWhy(c, k, AsInt(regs[a].rax))
            /\ m.func = "ignored" => regs[a].rax = ZeroExtend(c.eax)
            /\ m.func = "write" /\ k.err = 0 => regs[a].rax = ZeroExtend(k.val)
            /\ m.func \in {"recvfrom", "pipe"} /\ k.err = 0 => AsInt(regs[a].rax) = k.val
            /\ m.func = "pipe" /\ k.err = 0 => AsInt(regs[a].rdx) = k.val2

Finished(a) ==
    pc[a] = "returned" => Asked(a) /\ Fits(request[a], answer[a], Result(a))

Faithful(a) == Outward(a) /\ Decided(a) /\ Resuming(a) /\ Finished(a)

AllFaithful == \A a \in Act : Faithful(a)

\* On an Apple host a call that has failed finds its errno in the C library's cell, unless
\* a handler's call, at another level of the thread, has left another errno there.
CellHeld(a) ==
    /\ Host = "apple"
    /\ pc[a] = "answered"
    /\ answer[a].err # 0
    => ErrorFits(answer[a].err, host_errno[a[1]])

AllCellsHeld == \A a \in Act : CellHeld(a)

(***************************************************************************)
(* Inductive invariant for SenderAddressDelivered: what the buffers hold   *)
(* before and after the conversion.                                        *)
(***************************************************************************)
\* The out-parameters as the host kernel has left them.
SenderWritten(a) ==
    LET ad == answer[a].from
    IN  /\ user[a].socklen = ad.addrlen
        /\ Host = "linux" => /\ Converts(a)
                             /\ user[a].sockaddr.bsd_length = ad.family % 256
                             /\ user[a].sockaddr.bsd_family = 0
        /\ Host # "linux" => /\ user[a].sockaddr.bsd_length = ad.addrlen
                             /\ user[a].sockaddr.bsd_family = ad.family
        /\ user[a].sockaddr.path = ad.path

SenderFollowed(a) ==
    /\ hostcall[a].nr = "recvfrom"
    /\ answer[a].err = 0
    /\ answer[a].from.addrlen > 0
    => /\ pc[a] = "answered" => SenderWritten(a)
       /\ pc[a] \in {"set_return", "resume", "returned"} =>
              SenderReported(answer[a].from, user[a])

AllSendersFollowed == \A a \in Act : SenderFollowed(a)

-----------------------------------------------------------------------------
(***************************************************************************)
(* What the repository's tests and documents say and the code does not do. *)
(***************************************************************************)
\* A call that failed is reported as a failure.  (doc/xnu_examples.md: the function
\* that implements a call returns its error code, and the caller gets it with the
\* carry flag set.)
EveryFailureReported ==
    \A a \in Act : pc[a] = "returned" /\ Fails(request[a], answer[a]) => regs[a].rax = MinusOne

\* errno is a positive number.  (test/sys_write/fail_run.c expects 9.)
ErrnoAsDocumented == \A t \in Thread : darling_errno[t] >= 0

\* The length of a write is a size_t.  (The prototype in test/sys_write.)
WholeLengthDelivered ==
    \A a \in Act :
        pc[a] = "host" /\ hostcall[a].nr = "write" =>
            hostcall[a].args[3] = Meant(request[a]).arg[3]

\* The address recvfrom reports can be handed to the host's sendto.
\* (test/indirect_syscall/successful_recvfrom_and_sendto.c does that.)
ReplyAddressUsable ==
    \A a \in Act :
        /\ pc[a] = "returned"
        /\ Meant(request[a]).func = "recvfrom"
        /\ answer[a].err = 0
        /\ answer[a].from.addrlen > 0
        => linux_family(user[a].sockaddr) = answer[a].from.family

=============================================================================
