# A specification of Darling's user-space system calls

A macOS program that runs under Darling calls `write`, `pipe`, `recvfrom`,
`syscall` ... and lands in a stub of `libsystem_kernel`. Where XNU has a `syscall`
instruction, this library *calls* an emulation of XNU's system call entry: ordinary
user code that takes the registers apart, looks the call up, carries it out on the
host kernel (Linux, or macOS itself while the library is being developed) and puts the result back into the
registers and the carry flag as XNU would.

These modules specify that path. TLC checks them on small instances; TLAPS proves some
of the same properties for every value of the constants.

Paths below are relative to the repository; `LSK` is `src/libsystem_kernel`.

## 1. Inventory

### 1.1 Components

| Component | Source | State it keeps | Operations |
|---|---|---|---|
| libsyscall stubs | `LSK/libsyscall/bsdsyscalls/{SYS.h,_write.S,___pipe.S,___syscall.S}` | registers, the stack | one entry per call: put class and number into `eax`, `rcx` into `r10`, call the bridge, test CF, branch to `cerror`; `pipe` stores two descriptors |
| cerror | `LSK/libsyscall/custom/errno.c` | `darling_errno`, one per thread | store an errno, return -1 |
| assembly bridge | `LSK/emulation/src/xnu_syscall/syscall_asmbridge.S` | the register block on the stack | push all registers, call the C bridge, pop them |
| C bridge | `LSK/emulation/src/xnu_syscall/syscall_cbridge.c` | locals `builder`, `retargs`, `error` of each call; the register block | clear CF, choose the class, collect arguments from registers and stack, set result registers and CF |
| dispatcher | `LSK/emulation/src/xnu_syscall/syscall.c` | none of its own | direct and indirect Unix calls; Mach, machine-dependent and diagnostics calls are accepted and ignored |
| system call table | `LSK/emulation/src/xnu_syscall/syscall_table.c` | constant | number to function and argument count |
| system call numbers | `include/sys/syscall.h`, `include/mach/i386/syscall_sw.h`, `linux-syscalls/linux-x86_64.h` | constant | name to number, on both systems |
| implementations | `LSK/emulation/src/xnu_syscall/bsd/impl/**` | arguments and results of each call; the caller's memory | `sys_write`, `sys_recvfrom`, `sys_pipe`, `sys_syscall` |
| errno conversion | `LSK/emulation/src/conversion/errno.c` | constant | Linux errno to the build's |
| network conversion | `LSK/emulation/src/conversion/network/duct.c` | none | address families and message flags, both ways |
| socket addresses | `LSK/emulation/src/xnu_syscall/bsd/helper/network/duct.c` | the caller's buffer, converted in place | Linux to BSD and back, sizes |
| vchroot | `LSK/emulation/src/linux_premigration/vchroot_userspace.c` | none | stubs that leave paths alone |
| Linux system call | `LSK/emulation/src/linux_premigration/linux-syscall.S`, the macros of `common/base.h` | registers, the stack | `LINUX_SYSCALL0` to `6`, the `syscall` instruction |
| tests | `src/test/**`, above all `indirect_syscall/successful_recvfrom_and_sendto.c` | sockets, buffers, three threads | a server and a client exchange a datagram each |
| host kernel | outside the repository | descriptors, sockets | answers, late or never |

### 1.2 How they interact

```
program --call--> stub --call--> asm bridge --call--> C bridge --> dispatcher
                   |  register block on the stack         |            |
                   |                                      |        table row
                   |                                      |            v
cerror <--CF set---+ <--- pops the block <--- set_return_values <-- sys_xxx <--> host kernel
```

All of it runs on the calling thread, on the caller's stack. There are no queues, and no locks but one: the functions
log with `printf`, under the lock of stdout. Otherwise what is shared is the text, the constant tables, and the
caller's memory. `darling_errno` is `__thread`, and so is the errno of the host's C library, which the Apple branches
of the implementations read. The one concurrent program of the repository is a test: its server
thread makes a `recvfrom` through the emulator and hands the address it gets to the host's `sendto`.

### 1.3 What is hard

* **Concurrency.** XNU's entry is a trap: a thread in it cannot take a signal handler of
  its own. Here it is user code. Any number of threads are inside at once, and a
  signal handler may make a call of its own between any two steps of another one on the same
  thread.
* **Stale state.** CF is whatever the program's last instruction left; `builder` and
  `retargs` are not initialised except where a later step happens to need them;
  `recvfrom` converts the address buffer even if the host wrote nothing into it.
* **Placement of arguments.** `syscall(n, ...)` shifts every argument by one register and the
  sixth onto the stack, above frames that two assembly files push.
* **Numbers with two meanings.** The sign of an error, -1 and -2 (XNU's `ERESTART` and
  `EJUSTRETURN`, Linux's `EPERM` and `ENOENT`), the two bytes of an address family,
  lengths of 32 and of 64 bits.
* **Traps.** `__builtin_trap()` stands in two places for "this cannot happen".
* **Blocking.** A host call may never return; it must not hold anyone else up. But the log is written under a lock,
  to a file that may be full, and a signal handler may stop the lock's owner.
* **Results nobody looks at.** The UDP test ignores what its client's `sendto` and `recvfrom` return.
* **Numbers in many places.** A function has an index in a hand-written table, a `SYS_` number in its
  stub, a `__NR_` number in `bsd/impl`; 42 is `pipe` to XNU and `connect` to Linux.
* **Two layouts in one union.** The length and the family byte of a BSD address are the two bytes of
  Linux's family; both conversions read and write them in place.
* **Loss.** The UDP test starts its client without waiting for the server to bind its socket.

### 1.4 What makes each component correct

* stubs, cerror: the program sees the result or -1 and errno, and errno only changes for a failed
  call of the same thread (`OutcomeFaithful`, `ErrnoIsOwn`).
* bridge, dispatcher, table: the host is asked for exactly what the C caller asked for
  (`ArgumentsDelivered`); the traps are unreachable (`NoTrap`); every number and class that is not
  served ends as XNU ends it (`OutcomeFaithful`).
* assembly bridge: the block the C code reads is laid out as its struct (`HandsOver`), C functions find an
  aligned stack (`AlignedCalls`), and registers, flags and stack come back to the program as a
  system call leaves them (`ProgramResumes`, `ScratchPreserved`).
* implementations: the host's answer to this very call is the result (`OutcomeFaithful`).
* socket addresses: the sender is reported in BSD form and nothing of it is lost
  (`SenderAddressDelivered`); there and back an address and a flag keep their meaning
  (`LinuxSeesAddress`, `AddressComesBack`, `FlagsKeepTheirNames`).
* numbers: whatever Linux runs is the function that was called (`HostRunsNamesake`, `RefusedOrRun`,
  `NumberSurvives`).
* Linux system call: Linux is asked for the call that was written, and the caller keeps its registers
  (`KernelAskedForCall`, `CallerResumes`).
* the UDP test: its threads wait for one another only if one of its two datagrams is lost
  (`DeadlockByLossOnly`), it ends in every other case (`HangsByLossOnly`), and it succeeds only after the server has
  replied (`ReplyReachesClient`).
* all: what a system call promises, as one specification (`SyscallContract`), is kept (`ContractKept`),
  and a call gets through, although all of them log (`CallsGetThrough`).

## 2. The modules

| Module | Models |
|---|---|
| `Words` | 64-bit words as pairs of ints; the casts of the C code |
| `ErrnoConversion` | `errno.c`: the table and `errno_linux_to_bsd` |
| `SyscallTable` | rows, classes, masks |
| `SockaddrFixup` | `sfamily_linux_to_bsd`, `sockaddr_fixup_from_linux` |
| `CBridge` | the pure parts of `syscall_cbridge.c`: arguments in, results out; registers at the trap |
| `DarlingSyscall` | the state machine: composes all of the above with the stubs, the dispatcher, the implementations, cerror and the host |
| `DarlingSyscallProperties` | its properties, with a reference reading of what the caller meant; the refinement mapping; the inductive invariants |
| `SyscallContract` | the abstract specification: what a system call promises a program |
| `LoggedSyscall` | `DarlingSyscall` composed with the log: the lock of stdout, and who waits for whom |
| `AsmBridge` | the stub and the assembly bridge, instruction by instruction, with the layout of the register block |
| `LinuxSyscall` | the `LINUX_SYSCALL` macros and the instructions that enter Linux, on both architectures the file has |
| `SyscallRouting` | the way of a number from the stub to the function Linux runs, for any two lists of numbers |
| `SyscallNumbers` | the two lists of the x86-64 build, every entry |
| `NetworkConversion` | families, flags and addresses from the program to Linux and back |
| `UdpTest` | the two-thread UDP test, composed with the emulator's address conversion |
| `MCDarlingSyscall`, `MCLoggedSyscall`, `MCAsmBridge`, `MCLinuxSyscall`, `MCSyscallRouting`, `MCNetworkConversion`, `MCUdpTest` | instances for TLC |
| `DarlingSyscallTypes` | proofs: types of every operator and action, `TypeCorrect` |
| `DarlingSyscallProofs` | proofs: `TrapsUnreachable`, `ArgumentsReachHost` |
| `DarlingSyscallOutcomeProofs` | proofs: `OutcomeIsHosts`, `ErrnoKept`, `SenderReachesProgram`, and the refinement `ContractImplemented` |
| `NetworkConversionProofs` | proofs: `ConversionTypeCorrect`, `AddressReachesLinux`, `AddressReturns`, `FlagsKept` |
| `UdpTestProofs` | proofs: `TestTypeCorrect`, `ReplyComesBack`, `OnlyLossDeadlocks` |
| `AsmBridgeProofs` | proofs: `BridgeHandsOver`, `BridgeResumes`, `BridgePreserves`, `BridgeAligned`, `BridgeTypeOK` |
| `LinuxSyscallProofs` | proofs: `SyscallAsksForCall`, `SyscallResumesCaller`, `SyscallTypeOK` |
| `SyscallRoutingProofs` | proofs: `NamesakeRuns`, `RefusalIsExact`, `NumbersArrive`, `NumbersTypeCorrect` |

### 2.1 State and actions of `DarlingSyscall`

An *activation* `<<t, d>>` is the call in progress at nesting level `d` of thread `t`: level 1 is the
thread's own, each further level belongs to a signal handler that interrupted the one below.
`Top(a)`: only the innermost activation of a thread moves.

| Variable | In the code |
|---|---|
| `depth`, `pc` | how many calls a thread is in, and where each one is |
| `request` | what the program asked: `eax` and the C arguments. Ghost, but for the stub's tail and the stack arguments |
| `regs`, `carry` | `darling_register_x86_64_t` on the stack and the one bit of `rflag` the code uses |
| `builder`, `retargs`, `error` | the automatic variables of `_darling_handle_x86_64_syscall` |
| `hostcall`, `answer` | what was asked of the host and what came back |
| `user` | what the caller's pointers point to: `fd[2]`, `*from`, `*socklen` |
| `darling_errno` | the thread-local of `errno.c` |
| `host_errno` | the errno of the host's C library, which only the Apple branches use |

| Action | Code | Where it may be interrupted next |
|---|---|---|
| `BeginCall` | the program, or a signal handler, enters a stub, up to the C bridge | entry |
| `HandleSyscall` | `_darling_handle_x86_64_syscall` to its `switch` | before the dispatcher |
| `DispatchUnix` | `darling_common_syscall_unix` and `full_args_init` | before the implementation |
| `SysWrite`, `SysRecvfrom`, `SysPipe`, `SysSyscall` | the implementation up to its host call | in the host |
| `HostAnswer` | external: an error; or a count, descriptors, a sender | after the host's answer |
| `FinishWrite`, `FinishRecvfrom`, `FinishPipe` | the rest of the implementation | before the results are stored |
| `SetReturnValues` | `set_return_values` and the pops | before the `jnb` |
| `StubReturn` | `jnb`, the tail of the stub, `darling_cerror` | before the program reads the result |
| `Return` | the program goes on | |
| `SetCerror` | `darling_set_cerror(0)`, by the program or by a handler in the middle of another call | |

Within an action the code touches only memory of its own activation (its frame, its register
block, its caller's buffers) and the two errnos of its own thread, so a finer
interleaving reaches no other results. The host's errno is written by the host's answer and read by the next action
of the same activation (`ErrorRead`); in between a handler's calls may write it, so that with handlers on an Apple host a call may
end with the errno of a handler's call (section 3, documented limits). Handlers reach the host only through the emulator here; what else sets errno (a call of
their own to the C library, the `printf` of their calls' log) is like a handler's call that the host refuses. A signal inside `darling_cerror` commutes for
the same reason: it writes the cell once and reads nothing afterwards.

Uninitialised memory is `Junk`, a word distinct from all others; what the C code leaves
uninitialised (three entries of `args->arg`, `indirect_syscall`, `arg_count`) is
either `Junk` or, where every path sets it before it is read, a fixed value.

### 2.2 The instructions: `AsmBridge`

`DarlingSyscall` starts from the register block the C bridge is handed and a stack whose arguments are four
words above the saved `rsp`. `AsmBridge` is where that comes from. Its text is the stub of
`SYS.h` and the instructions of `syscall_asmbridge.S` in their order, `push` and `pop` move
`rsp`, `call` and `ret` go through the stack, and `Signal` may at any instruction overwrite everything below
`rsp - RedZone`. The C functions are one action each: `Handle` may change `rax`, `rdx` and the carry bit of the
block, which is all that `CBridge!ReturnRegs` changes, and leaves scrap in every register and stack word
that its calling convention lets it. The two modules meet in `HandsOver`, which is stated with
`EntryRegs`, `StackWord` and `rsp_ptr` of an instance of `CBridge`.

### 2.3 The promise: `SyscallContract`

The contract knows nothing of registers, classes or tables. A call is begun, asks the host at most
once and for what it demands, is answered, is done with an outcome that fits call and answer, and is
left; `errno` of a thread moves only with a return of that thread or a reset. `Demands`, `Outcome` and
`ErrnoAfter` are its parameters. `DarlingSyscallProperties` gives them their meaning (`Delivers`, `Fits`,
`ErrnoFits`, all in terms of `Meant`, the reading of the C prototypes) and maps the emulator's state
to the contract's: `Exchanges` is the function of `Exchange(a)`, whose phase `PhaseOf(a)` comes from
`pc` and from whether the host has been asked.

| Contract | Emulator |
|---|---|
| `Begin` | `BeginCall` |
| `Ask` | `SysWrite`, `SysRecvfrom`, `SysPipe` |
| `Answer` | `HostAnswer` |
| `Complete` | `StubReturn` |
| `Leave` | `Return` |
| `Reset` | `SetCerror` |
| a stutter | `HandleSyscall`, `DispatchUnix`, `SysSyscall`, `FinishWrite`, `FinishRecvfrom`, `FinishPipe`, `SetReturnValues` |

A trap has the phase `"broken"`, which the contract does not have: a reachable trap breaks the refinement.

### 2.4 Into Linux: `LinuxSyscall`, `SyscallNumbers`, `SyscallRouting`

`LinuxSyscall` is made like `AsmBridge`. `CallLinuxSyscall` is what the compiler makes of a macro: six
arguments, the missing ones 0, and the number, an `int`, in the seventh place. On x86-64 that is a
stack slot of eight bytes whose upper half is `Garbage`. The `i386` text is in the same file and is
checked too, though no build selects it.

`SyscallRouting` follows a call as what it is in the code, a number: packed by the stub (`Trap`), unpacked
(`Classify`), looked up (`Dispatch`), replaced by a `__NR_` (`CallLinux`), and given its meaning by Linux
(`Linux`). The two headers are its constants `SYS` and `NR`, functions from names to numbers, so that both sides of
the `#ifdef`s of `bsd/impl` are in the model: on a list with `__NR_socketcall` the call goes through that, with
`LINUX_SYS_RECVFROM`; on one without `__NR_pipe` it is `pipe2`. `SyscallNumbers` has all numbers of
`sys/syscall.h` and of `linux-x86_64.h`, and `MCSyscallRouting` puts the two modules together.

### 2.5 Addresses and flags: `NetworkConversion`

A round trip: the program's address and flag word go to Linux through `sockaddr_fixup_from_bsd` and
`msgflags_bsd_to_linux`, Linux reads them, reports them as the address of a peer, and they
come back through `sockaddr_fixup_from_linux` and `msgflags_linux_to_bsd`. Only the last address conversion has
a caller in the repository; the others are written for `sendto` and its like. A flag word is the set of
its bits. `recvfrom` itself hands Linux the untranslated word (`recvfrom.c:56`; line 42 says `TODO: Fix for linux
build`), so `FlagsKeepTheirNames` is about the translations, not about that call.

`sockaddr_fixup_from_bsd` copies the address into another buffer (`duct.c:21`), as many bytes as its length says, and
takes the path from there with `strcpy`. What that buffer held before is its caller's business; since there is no
caller, `stale` is arbitrary: the number of bytes up to the next NUL behind those that were copied (`Copied`). A local
address may have any length from its header's on: with the NUL of its path within the length; without, as with
`SUN_LEN`; or shorter than its path. `LinuxSeesAddress` says when Linux sees the path that is meant, which takes a NUL
within the length or a zeroed buffer, and that otherwise it sees that path and stale bytes behind it, up to the end
of `sun_path`. Buffers are taken to be as large as `sockaddr_fixup_size_from_bsd` says; the 104-byte `strncpy` of both
conversions into a smaller one is not visible here.

### 2.6 A program of the emulator: `UdpTest`

Three threads (`Main`, `Server`, `Client`), one action per call of the C text, each failing call with its
`exit(1)` or without, each `assert`, on `darling_errno` (`NoError`), on what came (`Expected`) and on line 121
(`Differs`). Queues of datagrams and what becomes of them (`fate`) are external. The server's `recvfrom` is the
emulator's: `Reported` is `sockaddr_fixup_from_linux` on a Linux build and nothing on an Apple one, `ErrorOf` and
`Unreported` are the way of an error through `sys_recvfrom` and `set_return_values`. Other processes may
send to the server's port (`OthersSend`); the client's is one that the host chose and only the server is told. Five
things in the test show here:

* Line 112: the client may send before the server's `bind`; the datagram is lost and both threads wait for ever. The
  same if its `sendto` fails, whose result nobody looks at, or if the host drops one of the two datagrams.
* Lines 76 to 79: if the emulator's `recvfrom` fails, the first assert aborts the test; on a Linux build with `EPERM`
  or `ENOENT` it is the second, because the bridge reports neither and leaves the result 0.
* Line 117: the room for the reply is the `strlen` of a buffer nobody has written, so any part of it arrives.
* The same line: if this `recvfrom` fails, nobody notices, and the test succeeds without the reply. Line 120 then
  writes a NUL to `buffer[-1]`, the top byte of another local, in which the model sees no change.
* Line 121: the comparison has the wrong sense; the test aborts at the complete reply.

`HangsByLossOnly` and `ReplyReachesClient` say that nothing else goes wrong. `Lost` is what is meant by a loss: the
client's datagram did not come to the server's socket, dropped or never sent, or the server's reply was dropped.
`Blocked(p)` is the condition under which a thread cannot go on by itself: its `recvfrom` has no datagram, its
`pthread_join` waits for a thread that has not returned, it has not been created or is over. `DeadlockByLossOnly` is
what is left of `HangsByLossOnly` without fairness: in no order of the steps do all threads wait, unless the client's
datagram is lost or, once the server is through, its reply.

### 2.7 The log and its lock: `LoggedSyscall`

Every call takes the lock of stdout two to five times: in the handler (`syscall_cbridge.c:30-42`), in the dispatcher or
the function that ignores a class, where a number is refused (`syscall.c`; `__simple_printf` is `printf`, see
`common/simple.h`), and in both functions of `errno.c`. `LoggedSyscall` adds this to `DarlingSyscall`: each step that
logs (`Logs`) needs the lock first (`TakeLock`, printf's entry) and gives it back when it is made (`Printed`), for
which it waits while the file behind stdout is `full`. The lock is recursive: a handler that interrupts a printf of
its own thread goes on. Every other step is `DarlingSyscall`'s, and its variables change only as there, so
what the theorems say of `Spec` holds here too.

`CallsGetThrough` says that calls do not wait for calls that are in the host, and names the three ways in which the
log alone may stop one: the lock is not fair (`Overtaken`); its owner, or the call itself, is stopped by a handler
whose call stays in the host or which does not return (`HeldUp`); the log is never read (`<>[]full`). Without the
first or the last TLC finds a counterexample in `apple_threads`. The second needs a handler: the
variant with `MaxDepth = 2` of section 3 fails without it.

### 2.8 Abstractions

* A word is a pair of ints (`Words`): every cast in the code is at that granularity.
* A path in a socket address is its `strlen`; `vchroot_unexpand` does not change paths.
* Buffers are pointers; the bytes transferred are not modelled, only how many.
* Errno values are named by their Linux numbers in the table, and `HostErrno` gives the build's
  numbers: on a Linux build the table maps each number to itself, since `<sys/errno.h>` is
  then Linux's.
* Logging is in `LoggedSyscall` only. The `printf` calls that a function makes one after another are one there.
* In `UdpTest` a datagram is its sender; of `sockaddr_in` only the header is modelled.

## 3. What TLC checks

| Run | Instance | Distinct states | Shows |
|---|---|---|---|
| `linux_paths` | one thread, no nesting, 22 calls, five errnos, three counts, six sender addresses | 2473 | every path of a single call on Linux: `TypeOK`, `NoTrap`, `ArgumentsDelivered`, `OutcomeFaithful`, `SenderAddressDelivered`, `ErrnoIsOwn` |
| `linux_nested` | one thread, two levels, eight calls | 514433 | a handler's call at any point of another: `ArgumentsDelivered`, `OutcomeFaithful`, `ErrnoIsOwn`, and the refinement `ContractKept` |
| `apple_threads` | two threads, three calls, an Apple host, the log and its lock, fairness | 208544 | all interleavings of two threads: the same four, and `CallsGetThrough` |
| `asm_bridge` | one stub with three stack arguments, two positions of the caller's frame, CF set and clear, signals at every instruction without a red zone | 13022 | `HandsOver`, `AlignedCalls`, `ProgramResumes`, `ScratchPreserved` |
| `linux_syscall` | both architectures, three numbers, 0 to 6 arguments, signals at every instruction | 15342 | `KernelAskedForCall`, `CallerResumes` |
| `linux_numbers` | every function of `sys/syscall.h`, by stub and by `syscall()`, and its number in three other classes, with Linux's numbers for x86-64 | 7302 | `HostRunsNamesake`, `RefusedOrRun`, `NumberSurvives` |
| `network` | seven families, five local paths in addresses of every length from 2 to 106, four amounts of stale bytes, every set of the eight translated flags with up to one other | 67241 | `LinuxSeesAddress`, `AddressComesBack`, `FlagsKeepTheirNames` |
| `udp_test` | the test on both hosts, two errnos, one datagram of another process, fairness | 3160 | `ReplyReachesClient`, `DeadlockByLossOnly`, `HangsByLossOnly` |
| `linux_swallowed`, `linux_errno_sign`, `linux_write_length`, `linux_reply_address` | as `linux_paths` | | the disagreements of section 5 |

Each module's `TypeOK` is checked in one of its runs.

The bounds:

* **Calls.** The code branches on the class (six values and signs), the number (0, the three
  served, none, out of range, and the same through `syscall`), the pointer `from`, and CF. The 22
  calls of `linux_paths` have one for each combination that the code tells apart, with
  arguments whose halves differ, so that a wrong cast or a wrong place shows.
* **Threads and levels.** Activations share nothing but the errnos of their thread and the lock of the log; a
  conflict needs two of them, on one thread or on two. Two levels are what `linux_nested` has, two threads
  `apple_threads`. Two threads with a handler each are too many states for
  all calls and answers; where it matters, for `HeldUp`, they are a variant that is not kept as a run:
  `apple_threads.cfg` with `MaxDepth = 2`, one call, `Errno = {}`, `Count = {5}` and `CallsGetThrough` alone
  passes with 40586 states.
  The theorems hold for any number.
* **Errnos.** 1 and 2, which the bridge mistakes; 9, which it does not; 35 and 95, which the table
  treats apart.
* **Addresses.** None, internet, IPv6 (whose number changes), local with its path, a local path one
  byte too long for `sun_path`, a family the table does not know. An address may be longer than its buffer
  and is then cut off by the host; a local path never is (`Reportable`), because what `strcpy` then reads is
  not defined. In `network`, local paths of
  0, 1, 102, 103 and 104 bytes, of which the fourth fills `sun_path` with its NUL and the last is without one, with 0,
  1, 2 and 103 stale bytes; and families that only one side numbers.
* **The stack.** `asm_bridge` has room for the deepest the code goes and one word of the C bridge's frame;
  each register and argument has a value of its own. The psABI's red zone has 16 words; the run
  gives handlers all of it, which is more than a kernel does. In `linux_syscall`, `Half` stands for 2^32
  and need only be above all numbers.
* **Errnos of the UDP test.** 1, which a Linux build's bridge does not report, and 4, which it does.
* **Datagrams.** `MaxStray` bounds those of other processes. One is enough for the server to read it
  first; `ReplyComesBack` and `OnlyLossDeadlocks` hold for any number.
* **Numbers.** `linux_numbers` has no bound: it goes through every entry of both lists by every route. The
  theorems of `SyscallRoutingProofs` are about other lists too.

Calls are never in the host and finished at once for want of a bound: the only counters to
cap are `MaxDepth`, the bound on nested signals in the guard of `BeginCall`, and `MaxStray`.

**Fairness.** `FairSpec` of `LoggedSyscall` assumes, for each activation, weak fairness of
`Top(a) /\ LoggedEmulate(a)`: a thread that can run the emulator's code eventually does, which is what a preemptive
scheduler gives. `HostAnswer` is not in it (the host may block for ever), nor are `BeginCall` and `Return` (the
program and its handlers may do anything, also nothing), nor `Drain` (nobody need read the log), and that the lock
goes to a thread that waits for it while others do too is not assumed either.
`FairSpec` of `UdpTest` assumes weak fairness of each thread's next step, again the scheduler's;
`OthersSend` has none, nor have the failures of a `recvfrom` that waits. A thread waits in the host exactly while its queue is empty or the thread it joins has not
returned. `udp_test` says `CHECK_DEADLOCK FALSE`: the process ends.

**Documented limits of the passing properties.** `ArgumentsDelivered` leaves out the
lengths that `sys_write` truncates (`FitsInt`), `OutcomeFaithful` and `ErrnoIsOwn` the failures
the bridge takes for successes (`Swallowed`); three of the violation runs are about exactly those. With handlers on an
Apple host `ErrnoIsOwn` and `ContractKept` ask of the error of a call only that it be one of the host's (`ErrorFits`,
`SaysWhy`), since it may be a handler's: the Apple branches return `errno` after
the host's call has failed (`write.c:38`, `recvfrom.c:74`, `pipe.c:27`), and a handler whose own call fails in between
leaves its error there. A handler that saves and restores `darling_errno`, the errno it knows, does not prevent it.
That case is in the theorems and in no run. On Linux, and on an Apple host without
handlers, they ask for the call's own.
`SenderAddressDelivered` speaks of answers that report a sender; if there is none, the buffer keeps what it
had, and a buffer whose stale two bytes read as `PF_LOCAL` would be reported as a local address.
`LinuxSeesAddress` leaves out the families of `Ambiguous`: with Darwin's headers the numbers 4 and 10 stand for
other families, without a row in `sfamily_bsd_to_linux`, and its `default` hands them on as Linux's `PF_IPX` and
`PF_INET6`.

## 4. What is proved

Constants are arbitrary within the named assumptions: `IntMaxAssumption`, `HostErrnoAssumption`,
`SysnumAssumption`, `HostPFAssumption`, `JunkAssumption`, `ConstantsAssumption`, `TailAssumption` (the only stub
with the tail of `___pipe.S` is the one of number 42). In particular
`Thread` is any set, `MaxDepth` any positive number, `Call` any set of calls, `Host` either.
`NetworkConversion` adds `InputAssumption` and `FamiliesDiffer` (the families are labels of a C
`switch`, so no two are equal), `UdpTest` adds `HostsAssumption`, `SyscallRouting` adds `XnuAssumption` and
`LinuxAssumption` (4.2). The assumptions of the two machines,
`StartAssumption` and `MachineAssumption`, are those of 4.3.

### 4.1 The emulator

* `TypeCorrect == Spec => []TypeOK` (`DarlingSyscallTypes`). One lemma for each operator (what
  it returns for arguments of its types) and one for each action. `TypeOK` is inductive as it stands
  because it includes `LevelsInUse`: without it, `Return` could take a thread below level 0
  and `BeginCall` could land on an activation that is in use.
* `TrapsUnreachable == Spec => []NoTrap` (`DarlingSyscallProofs`). `NoTrap` is not inductive. The
  strengthening `ResultTypeSet` says that from the host's call on a result type is set, and that at
  the return of any path either an error is or a result type is or the call is of another class. The
  other trap is excluded by `FewParams`: no row has more parameters than the array has room for.
* `ArgumentsReachHost == Spec => []ArgumentsDelivered`. The strengthening `AllOnTrack` follows
  an activation through the bridge: registers as at the trap until the dispatch, then an argument array that
  holds the C arguments (`DirectArgs`, `IndirectArgs`), then the host's call. That other
  activations do not disturb it is `StepKeepsOthers` and `BeginKeepsOthers`, stated once for everything
  (`Seen`) that belongs to an activation.
* `OutcomeIsHosts == Spec => []OutcomeFaithful` and `ErrnoKept == Spec => ErrnoIsOwn`
  (`DarlingSyscallOutcomeProofs`). `OutcomeFaithful` says something only at the return. `AllFaithful` says what
  has become of the answer before: `Outward` (on the way there: nothing asked, CF clear, the result type that
  of the function), `Decided` (the answer is in `retargs` and `error`), `Resuming` (it is in the registers and
  CF), `Finished`. It uses `AllOnTrack`, from which it has that the function that runs is the one that was
  meant. `ErrnoIsOwn` follows from `Resuming` at the one step that writes the cell. On an Apple host the error comes
  from a cell that the calls of a thread share; `AllCellsHeld` says what is in it when an implementation reads it: the
  call's own errno if there are no handlers, and one of the host's otherwise.
* `SenderReachesProgram == Spec => []SenderAddressDelivered` (`DarlingSyscallOutcomeProofs`).
  `AllSendersFollowed` has the sender in the caller's buffer as the host wrote it (`SenderWritten`) before
  `FinishRecvfrom` and as it is reported (`SenderReported`) after it; in between is one lemma about the
  conversion, for every family and length.
* `ContractImplemented == Spec => ContractKept` (`DarlingSyscallOutcomeProofs`): the emulator implements
  `SyscallContract`. The initial states map to initial states; each action maps to the
  step of the table in 2.3 or to a stutter. The step lemmas need `TypeOK`, `AllOnTrack` (for `Demands`), `AllFaithful`
  (for `Outcome` and `ErrnoAfter`) and, of the next state, `NoTrap`, so that no phase is `"broken"`.

### 4.2 Numbers, conversions and the test

* `NamesakeRuns == Spec => []HostRunsNamesake`, `RefusalIsExact == Spec => []RefusedOrRun`,
  `NumbersArrive == Spec => []NumberSurvives` and `NumbersTypeCorrect` (`SyscallRoutingProofs`). None of the first
  three is inductive: each speaks of the end of the way, where only a number is left, and of the name it began with.
  `Routed` says at each station what stands for that name: at the bridge `eax` and `rdi` (`AtBridge`), at the
  dispatcher the number after the shift of an indirect call (`AtDispatcher`), in `bsd/impl` the row the number has and
  in Linux the `__NR_` that this row's function asks for (`AtFunction`), at the end one of three outcomes (`AtReturn`).
  `RowOf` and `LinuxNameOf` are where it matters that no two functions share a number.
  `XnuAssumption` is all that is asked of XNU's list: no number twice, none outside the table's size, and the four that
  `syscall_table.c` writes by hand. `LinuxAssumption` asks of Linux's no number twice, and that `bsd/impl` finds one for
  each of its calls. TLC evaluates both on the headers of the x86-64 build. So the theorems cover the branches with
  `socketcall` and `pipe2`, which that build does not compile, and any renumbering of what is not implemented.

* `AddressReachesLinux`, `AddressReturns`, `FlagsKept` (`NetworkConversionProofs`): the three properties
  of `NetworkConversion` for every numbering of the families, every family, every local path up to `sun_path`'s size in
  an address of any length, any number of stale bytes behind it and every flag word. The heart is `FamilyThereAndBack`: outside `Ambiguous` the two switches are inverse to each
  other. The invariant `Faithful` says, for each station of the trip, what has become of the packet.
  `ConversionTypeCorrect` adds that no converted address outgrows `sockaddr_fixup_size_from_bsd`.
* `TestTypeCorrect` and `ReplyComesBack == Spec => []ReplyReachesClient` (`UdpTestProofs`). The invariant `OnTrack` ties
  each datagram to what its senders have done (`ForServer`, `ForClient`), the errors and the asserts on them to the
  host's answer (`ServerErrno`) and each thread to how far the others must have come.
  `ReportedIsSendable` is the one arithmetical fact: a converted address is never one that Linux takes for
  `AF_INET`, whatever the numbers, which is why the test cannot succeed on a Linux build.
* `OnlyLossDeadlocks == Spec => []DeadlockByLossOnly` (`UdpTestProofs`): the safety core of `HangsByLossOnly`. `Awaited`
  has a datagram in the server's queue as long as the client's has come and the server has received none, and one in
  the client's queue once the reply has come and the client still waits; `MainOnTrack` ties
  `main`'s two joins to the threads it has created. Together with `OnTrack` they leave some thread that can go on.
  `Blocked` is written out because `ENABLED` is beyond the prover; that it is `~ENABLED Step(p)` was compared by TLC on
  the states of `udp_test`. (The failure of a `recvfrom` that waits is not in `Step`.)

### 4.3 The instructions

The proofs about `AsmBridge` and `LinuxSyscall` are for every register file, every argument, every stack and a
signal handler at every instruction. What they assume:

* `StartAssumption`: the program calls a stub with `rsp` 16-byte aligned, as the psABI asks; its arguments, any
  number of them, are on the stack; below them there is room for the `Deepest` = 17 words that a call may need (two
  return addresses, the stub's frame pointer, the bridge's, twelve registers, the C function's return address).
  What happens at the end of the stack is not in the code.
* `MachineAssumption`: room for 12 words below the caller of `linux_syscall` (seven arguments, a return address, four
  saved registers), and numbers below `Half`, since `__NR_xxx` are ints.
* `RedZone` is any number of words. No proof uses it: neither text keeps anything below `rsp`.

None of the properties is inductive: each speaks of one point of the text (the call of the C function, the
kernel's entry, the return), and what makes it true there was put on the stack up to thirty instructions before.
The inductive invariant is called `FollowsText` in both modules. No run lists it, since it says nothing of its own
about the code; added to the invariants of `asm_bridge.cfg` or `linux_syscall.cfg` it holds there, which is how it
was found.

* `AsmBridge`. `Depth(p)` is how many words a call has on the stack when control is at `p`, and `Frame(d)` what
  the `d`-th of them is. `FramesInPlace` says that `rsp` is `Depth(pc)` words below where the program left it and
  that all of those words hold their `Frame`: a handler may write only below them. `RegistersOut` and
  `RegistersBack` say which registers are still the program's on the way to the C code, and which are the block's
  again on the way back; `Saved(r)` is a register's value in the block, before and after the C code has decided the
  outcome. There is a step lemma for each kind of instruction and not for each of the 40: the texts are joined of
  parts (`Joined`), so the place of the i-th push or pop is known for all `i` at once. From it follow
  `BridgeHandsOver == Spec => []HandsOver`, which makes what `CBridge` assumes of its registers and of `rsp_ptr` a
  theorem about the assembly, `BridgeResumes`, `BridgePreserves`, `BridgeAligned` (at both C calls `Depth` has the
  parity that the ABI asks for) and `BridgeTypeOK`.
* `LinuxSyscall`. `Phases` ties what Linux has been asked to where control is. `OnX86_64` has the two words that a
  call leaves on the stack, and the registers one by one. On i386 `StackOfI386` has the seven arguments, the return
  address and the `Saved(pc)` registers that are pushed at the moment, and `OnI386` the arguments loaded and the
  registers popped so far. `Distinct` (no register is loaded or saved twice) is what keeps an earlier load from
  being lost. `LowerHalf` is the one arithmetical fact: the 32-bit load of the number drops whatever the upper half
  of its slot holds. `SyscallAsksForCall`, `SyscallResumesCaller` and `SyscallTypeOK` follow.

### 4.4 Only model-checked

* `CallsGetThrough` and `HangsByLossOnly`: liveness under fairness is outside what the prover does. Of the second,
  `OnlyLossDeadlocks` proves what can be said without fairness; that no thread makes steps for ever is then left to
  TLC.

Every other property of a passing run is the property of a theorem.

## 5. Where the code and its documentation disagree

1. `linux_swallowed` / `EveryFailureReported`. `errno_linux_to_bsd` keeps the sign, so the
   kernel's `-EPERM` and `-ENOENT` come back as -1 and -2, which `set_return_values` takes for
   `ERESTART` and `EJUSTRETURN`: the call returns as a success, and `pipe` stores two zeros.
   `doc/xnu_examples.md` (lines 299-301 and 564) describes an error as returned by `return` and
   reported with the carry flag.
2. `linux_errno_sign` / `ErrnoAsDocumented`. Other errors arrive in `darling_errno` with the kernel's
   sign; `test/sys_write/fail_run.c:17` expects 9.
3. `linux_write_length` / `WholeLengthDelivered`. `sys_write` reads its length as an `int`; the
   prototype in `test/sys_write/successful_run.c:8` has a `size_t`.
4. `linux_reply_address` / `ReplyAddressUsable`. On a Linux build the program is compiled against Linux's
   `struct sockaddr`, and `recvfrom` hands it one in BSD's layout;
   `test/indirect_syscall/successful_recvfrom_and_sendto.c:86` passes it to the host's
   `sendto`.

## 6. What is not modelled

* The host kernel's state. Its answers are arbitrary within what the implementations can be given; descriptors
  and sockets behind them are not modelled, except the two queues of `UdpTest`. The code under
  `src/` never relies on them.
* The text of the log and stdio's buffers: what a signal handler's `printf` does to an interrupted one of its thread
  is decided in a C library that is not part of the repository. The lock and the waiting are in `LoggedSyscall`.
* `__linux_syscall`, `__unknown_syscall` and `__unknown_syscall_machdep` in `common/base.c`; `vchroot_fdpath` and the
  userspace `vchroot` setup; `CANCELATION_POINT` and the thread-specific data headers: no caller, or empty.
* i386 and arm halves of the headers: the emulation itself is `#error` elsewhere than on x86-64. The lists of
  Linux's numbers for other architectures are not selected.
* `___recvmsg.S`: not built into a test, and its error branch has no definition to go to.
* Headers taken from XNU whose contents no modelled path uses; `stub.c`.
* The sequential tests: they say what is called and what is expected, and are the source of the calls in
  `MCDarlingSyscall` and of section 5.

## 7. Plan

Done, in this order: the pure modules, `DarlingSyscall` with its properties and runs, the
type theorem, the theorems about traps and arguments, `AsmBridge`; then `SyscallContract` and the refinement,
`NetworkConversion`, `LinuxSyscall`, `SyscallNumbers` and `SyscallRouting`, `UdpTest`, and the proofs of the outcome,
of errno, of the sender, of the refinement, of the round trip and of the test.

Then the proofs of the two texts, instruction by instruction; then those of the numbers, for which the
headers became constants of `SyscallRouting`, and of the test's deadlock. Last the errno of an Apple host's C library,
the failing calls of `UdpTest`, addresses of every length in `NetworkConversion`, and `LoggedSyscall`.

Left:

1. When the repository has more implementations (`sendto` and `recvmsg` have stubs, flags and conversions waiting
   for them), their rows, actions and places in `Meant`; `recvfrom`'s flags once its `TODO` is done.
2. The lengths of buffers: the `strncpy` of both address conversions into a buffer smaller than `sockaddr_fixup`, and
   the byte behind the buffer that line 81 of the UDP test may write.
3. A composition of `AsmBridge` with `DarlingSyscall` in one state machine. `HandsOver` joins them on the way in;
   on the way out they meet only in `Handle` and `SetReturnValues` changing the same three fields.
