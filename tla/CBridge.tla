------------------------------- MODULE CBridge ------------------------------
(***************************************************************************)
(* The pure parts of xnu_syscall/syscall_cbridge.c and of the trap it      *)
(* handles: the registers and the stack as the stub and the assembly       *)
(* bridge leave them, the argument array built from them, and the          *)
(* registers a result is put into.                                         *)
(***************************************************************************)
EXTENDS Integers, Words, SyscallTable

CONSTANTS
    Linkage,    \* a saved %rbp or a return address on the stack
    Junk        \* a word nobody has set: garbage in a register or on the stack

ASSUME JunkAssumption == Linkage \in Word /\ Junk \in Word

\* darling_register_x86_64_t without rflag (see carry), rbp and rsp, which the
\* C bridge reads but never assigns.
RegBlock == [rax : Word, rdi : Word, rsi : Word, rdx : Word, rcx : Word,
             r8 : Word, r9 : Word, r10 : Word, r11 : Word]

\* The i-th C argument of a call; whatever was there if the caller gave fewer.
CArg(arg, i) == IF i \in DOMAIN arg THEN arg[i] ELSE Junk

\* The registers at the trap: the C calling convention, movl $..., %eax and
\* movq %rcx, %r10 of the stub.
EntryRegs(eax, arg) ==
    [rax |-> ZeroExtend(eax), rdi |-> CArg(arg, 1), rsi |-> CArg(arg, 2),
     rdx |-> CArg(arg, 3),    rcx |-> CArg(arg, 4), r8  |-> CArg(arg, 5),
     r9  |-> CArg(arg, 6),    r10 |-> CArg(arg, 4), r11 |-> Junk]

\* The i-th word (from 0) above the saved rsp: the bridge's push %rbp, the return
\* address into the stub, the stub's push %rbp, the return address into the
\* program, then the arguments that did not fit into registers.
StackWord(arg, i) == IF i < 4 THEN Linkage ELSE CArg(arg, 7 + (i - 4))

-----------------------------------------------------------------------------
ERESTART == -1
EJUSTRETURN == -2

\* args->arg[i] is arg[i + 1].
ArgIndex == 1..9
Builder == [sysnum : Int32, arg : [ArgIndex -> Word], indirect : BOOLEAN, arg_count : Nat]

\* arg_count and indirect_syscall are not initialised here, nor arg[6..8].
partial_args_init(r) ==
    [sysnum    |-> get_sysnum(AsInt(r.rax)),
     arg       |-> <<r.rdi, r.rsi, r.rdx, r.r10, r.r8, r.r9, Junk, Junk, Junk>>,
     indirect  |-> FALSE,
     arg_count |-> 0]

param_size(b) == b.arg_count + (IF b.indirect THEN 1 ELSE 0)
max_params(b) == 9 + (IF b.indirect THEN 1 ELSE 0)

\* The condition of __builtin_trap() in full_args_init, nested in param_size > 6.
TooManyParams(b) == param_size(b) > 6 /\ param_size(b) > max_params(b)

\* Mutant: forgets that an indirect call has one register less.
starting_arg_Direct(b) == 7

\* The first argument that is read from the stack.
starting_arg(b) == IF b.indirect THEN 6 ELSE 7

\* Mutant: skips the frame of the assembly bridge only.
rsp_ptr_OneFrame == 2

\* rsp_ptr, counted in words above the saved rsp:
\* (PUSH_RETURN_ADDRESS_SIZE + PUSH_RSP_SIZE) * 2 bytes
rsp_ptr == 4

\* An indirect call has its number in rdi and everything else one place later;
\* arguments beyond the sixth register come from the stack.
full_args_init(b, r, arg) ==
    LET fromRegs == IF b.indirect
                    THEN [b.arg EXCEPT ![1] = r.rsi, ![2] = r.rdx, ![3] = r.r10,
                                       ![4] = r.r8,  ![5] = r.r9]
                    ELSE b.arg
        onStack(i) == i >= starting_arg(b) /\ i - starting_arg(b) < param_size(b) - 6
    IN  [b EXCEPT !.sysnum = IF b.indirect THEN AsInt(r.rdi) ELSE @,
                  !.arg = [i \in ArgIndex |->
                              IF onStack(i) THEN StackWord(arg, rsp_ptr + (i - starting_arg(b)))
                              ELSE fromRegs[i]]]

-----------------------------------------------------------------------------
\* The result types set_return_values stores as one 64-bit value.
Wide == {"OFF_T", "ADDR_T", "SIZE_T", "SSIZE_T", "UINT64_T"}
RetargTypes == {"INVALID", "NONE", "INT_T", "UINT_T"} \cup Wide
Retargs == [syscall_type : {"INVALID", "UNIX", "MACH", "MACHDEP"}, result_type : RetargTypes,
            result0 : Int32, result1 : Int32]

\* Whether set_return_values takes its error branch.
IsError(error) == error \notin {0, ERESTART, EJUSTRETURN}

\* Mutant: result[1] is lost.
ReturnRegs_OneResult(ra, r, error) ==
    IF ra.syscall_type # "UNIX" THEN r
    ELSE IF IsError(error) THEN [r EXCEPT !.rax = SignExtend(error)]
    ELSE [r EXCEPT !.rax = OfPair(ra.result0, 0)]

\* set_return_values: the registers it leaves, whether it sets the carry flag, and
\* whether its switch reaches __builtin_trap().
ReturnRegs(ra, r, error) ==
    IF ra.syscall_type # "UNIX" THEN r
    ELSE IF IsError(error) THEN [r EXCEPT !.rax = SignExtend(error)]
    ELSE CASE ra.result_type = "INT_T" ->
                [r EXCEPT !.rax = SignExtend(ra.result0), !.rdx = SignExtend(ra.result1)]
           [] ra.result_type = "UINT_T" ->
                [r EXCEPT !.rax = ZeroExtend(ra.result0), !.rdx = ZeroExtend(ra.result1)]
           [] ra.result_type \in Wide ->
                [r EXCEPT !.rax = OfPair(ra.result0, ra.result1), !.rdx = NULL]
           [] OTHER -> r

ReturnCarry(ra, error) == ra.syscall_type = "UNIX" /\ IsError(error)

Traps(ra, error) ==
    ra.syscall_type = "UNIX" /\ ~IsError(error) /\ ra.result_type = "INVALID"
=============================================================================
