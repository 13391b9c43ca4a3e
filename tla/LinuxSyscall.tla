---------------------------- MODULE LinuxSyscall ----------------------------
(***************************************************************************)
(* How bsd/impl gets into the host kernel on Linux: the LINUX_SYSCALL      *)
(* macros of common/base.h, which pad a call to six arguments, and the     *)
(* instructions of linux_premigration/linux-syscall.S for both             *)
(* architectures it serves.                                                *)
(* A signal handler may run between any two instructions.                  *)
(*                                                                         *)
(* Registers have their x86-64 names on both.  Memory is addressed in      *)
(* words of the architecture.  A 64-bit word holds a 32-bit int in its     *)
(* lower half; Half stands for 2^32.                                       *)
(***************************************************************************)
EXTENDS Integers, Sequences

CONSTANTS
    Archs,      \* a subset of {"x86_64", "i386"}
    Stack,      \* the addresses of the stack
    Top,        \* the stack pointers a caller may have
    Half,       \* 2^32, scaled down: larger than every int of the model
    Number,     \* the __NR_xxx that are asked for
    Argument,   \* the first argument that is given; the others follow it
    Garbage,    \* what the upper half of an int's stack slot may hold
    Result,     \* what Linux returns
    Scrap       \* what a handler leaves on the stack

ASSUME MachineAssumption ==
    /\ Archs \subseteq {"x86_64", "i386"}
    /\ Stack \subseteq Int /\ Top \subseteq Int
    /\ \A t \in Top : t - 12 .. t + 1 \subseteq Stack
    /\ Half \in Nat
    /\ Number \subseteq 0 .. Half - 1
    /\ Argument \in Int /\ Garbage \subseteq Nat /\ Result \subseteq Int /\ Scrap \in Int

Register == {"rax", "rbx", "rcx", "rdx", "rsi", "rdi", "rbp", "rsp", "r8", "r9", "r10", "r11"}

\* The registers a C function keeps for its caller.
CalleeSaved(arch) == {"rbx", "rbp", "rsp"} \cup IF arch = "i386" THEN {"rsi", "rdi"} ELSE {}

-----------------------------------------------------------------------------
Op(op, a, b) == [op |-> op, a |-> a, b |-> b]
Push(r) == Op("push", r, 0)
Pop(r) == Op("pop", r, 0)
\* mov offset(%rsp), r with the offset in bytes
Load(offset, r) == Op("load", r, offset)
Mov(src, dst) == Op("mov", dst, src)
Kernel == Op("kernel", "none", "none")
Ret == Op("ret", "none", "none")

\* Mutant: the kernel's fourth argument is left in C's register.
X86_64_NoMov == << Load(8, "rax"), Kernel, Ret >>

\* linux_syscall(a1, a2, a3, a4, a5, a6, nr)
X86_64 == << Load(8, "rax"), Mov("rcx", "r10"), Kernel, Ret >>

Saves == << Push("rbx"), Push("rsi"), Push("rdi"), Push("rbp") >>

\* Mutants: the pops in the order of the pushes; one pop too few.
Restores_Swapped == << Pop("rbx"), Pop("rsi"), Pop("rdi"), Pop("rbp") >>
Restores_Short == << Pop("rbp"), Pop("rdi"), Pop("rsi") >>

Restores == << Pop("rbp"), Pop("rdi"), Pop("rsi"), Pop("rbx") >>

I386 ==
    Saves \o << Load(20, "rbx"), Load(24, "rcx"), Load(28, "rdx"), Load(32, "rsi"),
                Load(36, "rdi"), Load(40, "rbp"), Load(44, "rax"), Kernel >>
    \o Restores \o << Ret >>

Text == [x86_64 |-> X86_64, i386 |-> I386]

\* Linux takes its arguments from these, and its number from rax.
KernelArgs == [x86_64 |-> <<"rdi", "rsi", "rdx", "r10", "r8", "r9">>,
               i386   |-> <<"rbx", "rcx", "rdx", "rsi", "rdi", "rbp">>]

\* C on x86-64 passes six arguments in these; i386 passes none.
CArgs == <<"rdi", "rsi", "rdx", "rcx", "r8", "r9">>

WordSize == [x86_64 |-> 8, i386 |-> 4]

-----------------------------------------------------------------------------
VARIABLES
    arch,
    reg, mem, pc,
    call,       \* the call: its number and its arguments
    entry,      \* the registers of the caller
    kernel      \* what Linux was asked for, and what it has returned

vars == <<arch, reg, mem, pc, call, entry, kernel>>

CALLER == -1
KERNEL == -2

Calls == [nr : Number, args : {[i \in 1..n |-> Argument + i - 1] : n \in 0..6}]

Fresh(sp) == [r \in Register |-> IF r = "rsp" THEN sp ELSE Scrap]
\* What the caller has in the registers that are kept for it.
Kept == [rbx |-> 2 * Scrap, rbp |-> 3 * Scrap, rsi |-> 4 * Scrap, rdi |-> 5 * Scrap]
NotAsked == [nr |-> -1, args |-> <<>>, result |-> 0]

Init ==
    /\ arch \in Archs
    /\ \E sp \in Top : reg = Fresh(sp)
    /\ mem = [x \in Stack |-> Scrap]
    /\ pc = CALLER
    /\ call \in {c \in Calls : c.args = <<>>}
    /\ entry = reg
    /\ kernel = NotAsked

\* LINUX_SYSCALL0 .. LINUX_SYSCALL6: (long)a1, ..., 0, 0
Padded(args) == [i \in 1..6 |-> IF i \in DOMAIN args THEN args[i] ELSE 0]

\* The C compiler's call of linux_syscall.  On x86-64 the number, the seventh argument, is
\* an int in a stack slot of 8 bytes, of which the upper half may be anything.
CallLinuxSyscall ==
    /\ pc = CALLER
    /\ \E c \in Calls, sp \in Top, upper \in Garbage :
          LET full == Padded(c.args)
              pushed == IF arch = "x86_64" THEN <<c.nr + upper * Half>>
                        ELSE full \o <<c.nr>>
              before == [r \in Register |->
                            IF r = "rsp" THEN sp
                            ELSE IF arch = "x86_64" /\ \E i \in 1..6 : CArgs[i] = r
                            THEN full[CHOOSE i \in 1..6 : CArgs[i] = r]
                            ELSE IF r \in CalleeSaved(arch) THEN Kept[r] ELSE Scrap]
          IN  /\ call' = c
              /\ entry' = before
              /\ reg' = [before EXCEPT !["rsp"] = sp - Len(pushed) - 1]
              /\ mem' = [x \in Stack |->
                            LET i == x - (sp - Len(pushed)) + 1
                            IN  IF i = 0 THEN CALLER
                                ELSE IF i \in DOMAIN pushed THEN pushed[i] ELSE mem[x]]
    /\ pc' = 1
    /\ kernel' = NotAsked
    /\ UNCHANGED arch

At(op) == pc \in DOMAIN Text[arch] /\ Text[arch][pc].op = op
A == Text[arch][pc].a
B == Text[arch][pc].b

DoPush ==
    /\ At("push")
    /\ mem' = [mem EXCEPT ![reg["rsp"] - 1] = reg[A]]
    /\ reg' = [reg EXCEPT !["rsp"] = @ - 1]
    /\ pc' = pc + 1

DoPop ==
    /\ At("pop")
    /\ reg' = [[reg EXCEPT !["rsp"] = @ + 1] EXCEPT ![A] = mem[reg["rsp"]]]
    /\ pc' = pc + 1
    /\ UNCHANGED mem

\* A 32-bit load into a register: the lower half of the word, the upper half is cleared.
DoLoad ==
    /\ At("load")
    /\ reg' = [reg EXCEPT ![A] = LET w == mem[reg["rsp"] + B \div WordSize[arch]]
                                 IN  IF arch = "x86_64" THEN w % Half ELSE w]
    /\ pc' = pc + 1
    /\ UNCHANGED mem

DoMov ==
    /\ At("mov")
    /\ reg' = [reg EXCEPT ![A] = reg[B]]
    /\ pc' = pc + 1
    /\ UNCHANGED mem

DoRet ==
    /\ At("ret")
    /\ reg' = [reg EXCEPT !["rsp"] = @ + 1]
    /\ pc' = mem[reg["rsp"]]
    /\ UNCHANGED mem

Execute ==
    /\ DoPush \/ DoPop \/ DoLoad \/ DoMov \/ DoRet
    /\ UNCHANGED <<arch, call, entry, kernel>>

\* syscall, int $0x80
EnterKernel ==
    /\ At("kernel")
    /\ kernel' = [nr |-> reg["rax"],
                  args |-> [i \in 1..6 |-> reg[KernelArgs[arch][i]]],
                  result |-> 0]
    /\ pc' = KERNEL
    /\ UNCHANGED <<arch, reg, mem, call, entry>>

\* The syscall instruction itself has put the return address into rcx and the flags into
\* r11; Linux keeps all other registers.
KernelReturns ==
    /\ pc = KERNEL
    /\ \E v \in Result :
          /\ kernel' = [kernel EXCEPT !.result = v]
          /\ reg' = IF arch = "x86_64"
                    THEN [reg EXCEPT !["rax"] = v, !["rcx"] = Scrap, !["r11"] = Scrap]
                    ELSE [reg EXCEPT !["rax"] = v]
    /\ pc' = (CHOOSE i \in DOMAIN Text[arch] : Text[arch][i].op = "kernel") + 1
    /\ UNCHANGED <<arch, mem, call, entry>>

\* A handler runs on the stack below the interrupted code.
Signal ==
    /\ mem' = [x \in Stack |-> IF x < reg["rsp"] THEN Scrap ELSE mem[x]]
    /\ UNCHANGED <<arch, reg, pc, call, entry, kernel>>

Next == CallLinuxSyscall \/ Execute \/ EnterKernel \/ KernelReturns \/ Signal

Spec == Init /\ [][Next]_vars

-----------------------------------------------------------------------------
(***************************************************************************)
(* Properties.                                                             *)
(***************************************************************************)
Asked == kernel.nr # -1

\* Linux is asked for the call that was written in C: its number although only the lower
\* half of the number's stack slot is defined, every argument in its place, and 0 for each
\* argument that the macro's caller did not give, which a later Linux may take for flags.
KernelAskedForCall ==
    Asked => kernel.nr = call.nr /\ kernel.args = Padded(call.args)

\* What the caller gets back is Linux's answer to this call, and its stack and the registers
\* a C function keeps are as they were, though i386's arguments need all four of them.
CallerResumes ==
    pc = CALLER /\ Asked =>
        /\ reg["rax"] = kernel.result
        /\ \A r \in CalleeSaved(arch) \ {"rsp"} : reg[r] = entry[r]
        /\ reg["rsp"] = entry["rsp"] - (IF arch = "x86_64" THEN 1 ELSE 7)

\* The stack pointer stays in the stack and control in the text.
TypeOK ==
    /\ arch \in Archs
    /\ reg \in [Register -> Int] /\ entry \in [Register -> Int]
    /\ mem \in [Stack -> Int]
    /\ pc \in DOMAIN Text[arch] \cup {CALLER, KERNEL}
    /\ reg["rsp"] \in Stack
    /\ call \in Calls
    /\ kernel.result \in Result \cup {0}

-----------------------------------------------------------------------------
(***************************************************************************)
(* The inductive invariant behind the properties: what every instruction   *)
(* finds in the stack and in the registers.                                *)
(***************************************************************************)
Base == entry["rsp"]
Full == Padded(call.args)

\* Where the text enters the kernel.
Gate == IF arch = "x86_64" THEN 3 ELSE 12

Phases ==
    /\ Base \in Top
    /\ pc \in 1 .. Gate => ~Asked
    /\ pc > Gate \/ pc = KERNEL => Asked
    /\ Asked => kernel = [nr |-> call.nr, args |-> Full, result |-> kernel.result]
    /\ Asked /\ pc # KERNEL => reg["rax"] = kernel.result
    /\ pc = CALLER /\ ~Asked => reg["rsp"] = Base

\* Two words: the seventh argument and the return address.
OnX86_64 ==
    /\ pc # CALLER => reg["rsp"] = Base - 2 /\ mem[Base - 2] = CALLER
    /\ pc = 1 => mem[Base - 1] % Half = call.nr
    /\ pc \in 1 .. 3 => \A i \in 1 .. 6 : reg[CArgs[i]] = Full[i]
    /\ pc \in 2 .. 3 => reg["rax"] = call.nr
    /\ pc = 3 => reg["r10"] = Full[4]
    /\ pc # CALLER \/ Asked => reg["rbx"] = entry["rbx"] /\ reg["rbp"] = entry["rbp"]
    /\ pc = CALLER /\ Asked => reg["rsp"] = Base - 1

\* Words that linux_syscall has pushed on i386, below seven arguments and the return address.
Saved(p) ==
    CASE p \in 1 .. 4                 -> p - 1
      [] p \in 5 .. 12 \cup {KERNEL}  -> 4
      [] p \in 13 .. 17               -> 17 - p

StackOfI386 ==
    pc # CALLER =>
        /\ reg["rsp"] = Base - 8 - Saved(pc)
        /\ \A i \in 1 .. 6 : mem[Base - 8 + i] = Full[i]
        /\ mem[Base - 1] = call.nr
        /\ mem[Base - 8] = CALLER
        /\ \A i \in 1 .. Saved(pc) : mem[Base - 8 - i] = entry[Saves[i].a]

\* The kept registers until they are pushed and from when they are popped, and in between the
\* kernel's arguments, each from its load.
OnI386 ==
    /\ StackOfI386
    /\ pc \in 1 .. 5 => \A i \in 1 .. 4 : reg[Saves[i].a] = entry[Saves[i].a]
    /\ pc \in 5 .. 12 => \A i \in 1 .. 6 : i <= pc - 5 =>
                            reg[KernelArgs["i386"][i]] = Full[i]
    /\ pc = 12 => reg["rax"] = call.nr
    /\ pc \in 13 .. 17 => \A i \in 1 .. 4 : i <= pc - 13 =>
                            reg[Restores[i].a] = entry[Restores[i].a]
    /\ pc = CALLER /\ Asked => /\ reg["rsp"] = Base - 7
                               /\ \A i \in 1 .. 4 : reg[Saves[i].a] = entry[Saves[i].a]

FollowsText ==
    /\ TypeOK /\ Phases
    /\ arch = "x86_64" => OnX86_64
    /\ arch = "i386" => OnI386
=============================================================================
