----------------------------- MODULE AsmBridge -----------------------------
(***************************************************************************)
(* A libsyscall stub (bsdsyscalls/SYS.h, x86-64, DARLING) and the assembly *)
(* bridge it calls (xnu_syscall/syscall_asmbridge.S), one instruction at a *)
(* time, on a machine with a stack.  A signal handler may run between any  *)
(* two instructions and uses the stack below the interrupted code.         *)
(*                                                                         *)
(* Registers and memory hold integers.  Memory is addressed in words of 8  *)
(* bytes, so the stack is 16-byte aligned when rsp is even.  The carry     *)
(* flag is the lowest bit of rflags.                                       *)
(***************************************************************************)
EXTENDS Integers, Sequences

CONSTANTS
    Stack,      \* the addresses of the stack
    Sysnum,     \* SYSCALL_CONSTRUCT_UNIX(SYS_##name) of the stub
    Start,      \* register files the program may call the stub with
    StackArg,   \* the arguments it has pushed, the seventh first
    Result,     \* values the C bridge returns in rax and rdx
    RedZone,    \* words below rsp that a signal handler leaves alone
    Scrap       \* what a handler or a C function leaves in memory and registers

\* The fields of darling_register_x86_64_t.
FieldOrder == <<"rax", "rdi", "rsi", "rdx", "rcx", "r8", "r9", "r10", "r11",
                "rflags", "rbp", "rsp">>
Offset(f) == (CHOOSE i \in DOMAIN FieldOrder : FieldOrder[i] = f) - 1
Register == {FieldOrder[i] : i \in DOMAIN FieldOrder}

\* The words that a call puts on the stack before the C bridge has a frame of its own.
Deepest == 17

\* The psABI: rsp is 16-byte aligned before a call pushes its return address.  The stack is
\* large enough; what happens at its end is not in the code.
ASSUME StartAssumption ==
    /\ Stack \subseteq Int
    /\ Start \subseteq [Register -> Int]
    /\ StackArg \in Seq(Int)
    /\ \A s \in Start : /\ s["rsp"] % 2 = 0
                        /\ s["rsp"] - Deepest .. s["rsp"] + Len(StackArg) \subseteq Stack
    /\ Result \subseteq Int /\ Scrap \in Int /\ Sysnum \in Int /\ RedZone \in Nat

-----------------------------------------------------------------------------
(***************************************************************************)
(* The text.  Addresses of code outside of it are negative.                *)
(***************************************************************************)
Op(op, a, b) == [op |-> op, a |-> a, b |-> b]
Mov(dst, src) == Op("mov", dst, src)
Push(r) == Op("push", r, "none")
Pop(r) == Op("pop", r, "none")
Call(target) == Op("call", target, "none")
Ret == Op("ret", "none", "none")
Pushes(order) == [i \in DOMAIN order |-> Push(order[i])]
Pops(order) == [i \in DOMAIN order |-> Pop(order[i])]

\* Mutant: CF is not looked at.
Stub_NoBranch == << Op("load_sysnum", "rax", "none"), Mov("r10", "rcx"),
                    Push("rbp"), Mov("rbp", "rsp"), Call("bridge"), Pop("rbp"), Ret >>

\* UNIX_SYSCALL(name, nargs) with UNIX_SYSCALL_SYSCALL in its middle, and ret.
Stub == << Op("load_sysnum", "rax", "none"), Mov("r10", "rcx"),
           Push("rbp"), Mov("rbp", "rsp"), Call("bridge"), Pop("rbp"),
           Op("jnb", "ok", "none"), Mov("rdi", "rax"), Op("jmp", "cerror", "none"), Ret >>

\* Mutant: two registers change places.
SaveOrder_Swapped == <<"rsp", "rbp", "rflags", "r11", "r10", "r8", "r9", "rcx", "rdx",
                       "rsi", "rdi", "rax">>
SaveOrder == <<"rsp", "rbp", "rflags", "r11", "r10", "r9", "r8", "rcx", "rdx",
               "rsi", "rdi", "rax">>

\* Mutants: two registers change places; rsp is restored one pop too early.
RestoreOrder_Swapped == <<"rax", "rdi", "rsi", "rdx", "rcx", "r9", "r8", "r10", "r11",
                          "rflags", "rbp", "rsp">>
RestoreOrder_StackFirst == <<"rax", "rdi", "rsi", "rdx", "rcx", "r8", "r9", "r10", "r11",
                             "rflags", "rsp", "rbp">>
RestoreOrder == <<"rax", "rdi", "rsi", "rdx", "rcx", "r8", "r9", "r10", "r11",
                  "rflags", "rbp", "rsp">>

\* Mutant: no frame of its own.
Bridge_Frameless ==
    Pushes(SaveOrder) \o << Mov("rdi", "rsp"), Call("handler") >>
    \o Pops(RestoreOrder) \o << Ret >>

\* ___darling_handle_x86_64_syscall
Bridge ==
    << Push("rbp"), Mov("rbp", "rsp") >> \o Pushes(SaveOrder)
    \o << Mov("rdi", "rsp"), Call("handler") >>
    \o Pops(RestoreOrder) \o << Pop("rbp"), Ret >>

Text == Stub \o Bridge

PROGRAM == -1
Address(label) ==
    CASE label = "bridge"  -> Len(Stub) + 1
      [] label = "ok"      -> Len(Stub)
      [] label = "handler" -> -2
      [] label = "cerror"  -> -3

-----------------------------------------------------------------------------
VARIABLES
    reg, mem, pc,
    entry,      \* the registers when the stub was called
    outcome     \* what the C bridge has decided

vars == <<reg, mem, pc, entry, outcome>>

\* A carry of -1: nothing yet.
NoOutcome == [rax |-> 0, rdx |-> 0, carry |-> -1]
Decided == outcome.carry # -1

Init ==
    /\ reg \in Start
    /\ entry = reg
    /\ mem = [x \in Stack |-> Scrap]
    /\ pc = PROGRAM
    /\ outcome = NoOutcome

\* The program has pushed the arguments beyond the sixth and calls the stub.
CallStub ==
    /\ pc = PROGRAM
    /\ \E s \in Start :
          LET top == s["rsp"]
          IN  /\ entry' = s
              /\ reg' = [s EXCEPT !["rsp"] = top - 1]
              /\ mem' = [x \in Stack |->
                            IF x = top - 1 THEN PROGRAM
                            ELSE IF x - top + 1 \in DOMAIN StackArg
                            THEN StackArg[x - top + 1]
                            ELSE mem[x]]
    /\ pc' = 1
    /\ outcome' = NoOutcome

At(op) == pc \in DOMAIN Text /\ Text[pc].op = op
A == Text[pc].a
B == Text[pc].b

Pushed(v) ==
    /\ mem' = [mem EXCEPT ![reg["rsp"] - 1] = v]
    /\ reg' = [reg EXCEPT !["rsp"] = @ - 1]

\* push, pushfq.  push %rsp pushes the value rsp had before.
DoPush == At("push") /\ Pushed(reg[A]) /\ pc' = pc + 1

\* pop, popfq.  pop %rsp leaves the value it has read.
DoPop ==
    /\ At("pop")
    /\ reg' = [[reg EXCEPT !["rsp"] = @ + 1] EXCEPT ![A] = mem[reg["rsp"]]]
    /\ pc' = pc + 1
    /\ UNCHANGED mem

DoMov ==
    /\ At("mov")
    /\ reg' = [reg EXCEPT ![A] = reg[B]]
    /\ pc' = pc + 1
    /\ UNCHANGED mem

LoadSysnum ==
    /\ At("load_sysnum")
    /\ reg' = [reg EXCEPT ![A] = Sysnum]
    /\ pc' = pc + 1
    /\ UNCHANGED mem

DoCall == At("call") /\ Pushed(pc + 1) /\ pc' = Address(A)

Returned(regs) ==
    /\ reg' = [regs EXCEPT !["rsp"] = @ + 1]
    /\ pc' = mem[reg["rsp"]]

DoRet == At("ret") /\ Returned(reg) /\ UNCHANGED mem

Jump ==
    /\ \/ At("jmp") /\ pc' = Address(A)
       \/ At("jnb") /\ pc' = IF reg["rflags"] % 2 = 0 THEN Address(A) ELSE pc + 1
    /\ UNCHANGED <<reg, mem>>

\* A C function keeps rbp and rsp and nothing else.
AfterC(results) ==
    [r \in Register |-> IF r \in DOMAIN results THEN results[r]
                        ELSE IF r \in {"rbp", "rsp"} THEN reg[r]
                        ELSE Scrap]

\* _darling_handle_x86_64_syscall(regs): assigns rax and rdx and the carry bit
\* of rflag in the block rdi points to (see CBridge), uses the stack below.
Handle ==
    /\ pc = Address("handler")
    /\ \E rax, rdx \in Result, carry \in 0..1 :
          LET field(f) == reg["rdi"] + Offset(f)
          IN  /\ outcome' = [rax |-> rax, rdx |-> rdx, carry |-> carry]
              /\ mem' = [x \in Stack |->
                            IF x < reg["rsp"] THEN Scrap
                            ELSE IF x = field("rax") THEN rax
                            ELSE IF x = field("rdx") THEN rdx
                            ELSE IF x = field("rflags") THEN (mem[x] \div 2) * 2 + carry
                            ELSE mem[x]]
    /\ Returned(AfterC(<<>>))
    /\ UNCHANGED entry

\* darling_cerror(rdi): returns a 128-bit -1 to the caller of the stub.
Cerror ==
    /\ pc = Address("cerror")
    /\ mem' = [x \in Stack |-> IF x < reg["rsp"] THEN Scrap ELSE mem[x]]
    /\ Returned(AfterC([rax |-> -1, rdx |-> -1]))
    /\ UNCHANGED <<entry, outcome>>

\* A signal is handled: the kernel puts its frame below the red zone and restores
\* the registers from it; what the handler itself does stays below as well.
Signal ==
    /\ mem' = [x \in Stack |-> IF x < reg["rsp"] - RedZone THEN Scrap ELSE mem[x]]
    /\ UNCHANGED <<reg, pc, entry, outcome>>

Execute ==
    /\ DoPush \/ DoPop \/ DoMov \/ LoadSysnum \/ DoCall \/ DoRet \/ Jump
    /\ UNCHANGED <<entry, outcome>>

Next == CallStub \/ Execute \/ Handle \/ Cerror \/ Signal

Spec == Init /\ [][Next]_vars

-----------------------------------------------------------------------------
(***************************************************************************)
(* Properties.                                                             *)
(***************************************************************************)
AsWord(v) == [hi |-> 0, lo |-> v]

C == INSTANCE CBridge WITH INT_MAX <- 2147483647, Linkage <- AsWord(Scrap),
                           Junk <- AsWord(Scrap)

\* The C arguments of the call: six registers, then the stack.
CArguments ==
    [i \in 1 .. 6 + Len(StackArg) |->
        AsWord(IF i <= 6 THEN entry[<<"rdi", "rsi", "rdx", "rcx", "r8", "r9">>[i]]
               ELSE StackArg[i - 6])]

\* The assembly files make true what syscall_cbridge.c and the module CBridge take for
\* granted: the block at rdi is a darling_register_x86_64_t with the registers of the
\* trap in its fields, and the caller's stack arguments are rsp_ptr words above the rsp
\* in it, below which lie two saved frame pointers and two return addresses.
HandsOver ==
    pc = Address("handler") =>
        LET field(f) == mem[reg["rdi"] + Offset(f)]
            block == [f \in Register \ {"rflags", "rbp", "rsp"} |-> AsWord(field(f))]
        IN  /\ block = [C!EntryRegs(Sysnum, CArguments)
                            EXCEPT !.r11 = AsWord(entry["r11"])]
            /\ field("rflags") = entry["rflags"]
            /\ \A i \in C!rsp_ptr .. C!rsp_ptr + Len(StackArg) - 1 :
                    AsWord(mem[field("rsp") + i]) = C!StackWord(CArguments, i)

\* A C function is entered with the stack aligned to 16 bytes before its return address,
\* as its compiler assumes, although the stub is entered by a call of its own.
AlignedCalls ==
    pc \in {Address("handler"), Address("cerror")} => (reg["rsp"] + 1) % 2 = 0

\* The program goes on after its call with its stack pointer, its frame pointer and
\* everything on its stack as they were, with the result and the flags of the C bridge,
\* or with -1 if that has set CF; cerror is reached with the error and only then.
ProgramResumes ==
    /\ pc = PROGRAM /\ Decided =>
            /\ reg["rsp"] = entry["rsp"]
            /\ reg["rbp"] = entry["rbp"]
            /\ \A i \in DOMAIN StackArg : mem[entry["rsp"] + i - 1] = StackArg[i]
            /\ <<reg["rax"], reg["rdx"]>> =
                    IF outcome.carry = 1 THEN <<-1, -1>> ELSE <<outcome.rax, outcome.rdx>>
    /\ pc = Address("cerror") => outcome.carry = 1 /\ reg["rdi"] = outcome.rax

\* A system call overwrites no registers but those of its result: doc/motivation.md
\* names this as a purpose of the design.  (r10 takes the fourth argument; darling_cerror is
\* a C function and keeps none.)  The tail of pipe finds its argument in rdi again.
ScratchPreserved ==
    pc = PROGRAM /\ Decided /\ outcome.carry = 0 =>
        /\ \A r \in {"rdi", "rsi", "rcx", "r8", "r9", "r11"} : reg[r] = entry[r]
        /\ reg["r10"] = entry["rcx"]
        /\ reg["rflags"] \div 2 = entry["rflags"] \div 2

\* The stack pointer stays in the stack, and control in the text or the places
\* outside it that it calls: no return address is ever taken from a wrong word.
TypeOK ==
    /\ reg \in [Register -> Int]
    /\ mem \in [Stack -> Int]
    /\ pc \in 1 .. Len(Text) \cup {PROGRAM, Address("handler"), Address("cerror")}
    /\ reg["rsp"] \in Stack
    /\ entry \in Start
    /\ outcome \in [rax : Int, rdx : Int, carry : -1..1]

-----------------------------------------------------------------------------
(***************************************************************************)
(* The inductive invariant behind the properties: what every instruction   *)
(* finds in the stack and in the registers.                                *)
(***************************************************************************)
Base == entry["rsp"]

\* How many words a call has on the stack when it comes to p: 1 to 10 are the stub, 11 to 40
\* the bridge, of which 13 to 24 push and 27 to 38 pop the block.
Depth(p) ==
    CASE p = PROGRAM                          -> 0
      [] p \in {1, 2, 3, 7, 8, 9, 10, Address("cerror")} -> 1
      [] p \in {4, 5, 6}                      -> 2
      [] p \in {11, 12}                       -> p - 8
      [] p \in 13 .. 25                       -> p - 9
      [] p = 26                               -> 16
      [] p \in 27 .. 40                       -> 43 - p
      [] p = Address("handler")               -> 17

\* The registers as the bridge saves them, and after the C bridge as it restores them.
Saved(r) ==
    CASE r = "rax"    -> IF Decided THEN outcome.rax ELSE Sysnum
      [] r = "rdx"    -> IF Decided THEN outcome.rdx ELSE entry["rdx"]
      [] r = "r10"    -> entry["rcx"]
      [] r = "rflags" -> IF Decided THEN (entry["rflags"] \div 2) * 2 + outcome.carry
                         ELSE entry["rflags"]
      [] r \in {"rbp", "rsp"} -> Base - 4
      [] OTHER -> entry[r]

\* The d-th word of the call on the stack, from the program's down.
Frame(d) ==
    CASE d = 1        -> PROGRAM
      [] d = 2        -> entry["rbp"]
      [] d = 3        -> 6
      [] d = 4        -> Base - 2
      [] d \in 5 .. 16 -> Saved(FieldOrder[17 - d])
      [] d = 17       -> 27

Asking == pc \in 1 .. 5 \cup 11 .. 26 \cup {Address("handler")}
Answered == pc \in 6 .. 10 \cup 27 .. 40 \cup {Address("cerror")}

Phases ==
    /\ Asking => ~Decided
    /\ Answered => Decided
    /\ pc \in {8, 9, Address("cerror")} => outcome.carry = 1
    /\ pc = 10 => outcome.carry = 0

FramesInPlace ==
    /\ reg["rsp"] = Base - Depth(pc)
    /\ \A d \in 1 .. Depth(pc) : mem[Base - d] = Frame(d)
    /\ pc # PROGRAM \/ Decided =>
            \A i \in DOMAIN StackArg : mem[Base + i - 1] = StackArg[i]

\* On the way to the C bridge the registers are the program's, but for those that the
\* instructions so far have loaded.
RegistersOut ==
    /\ pc \in 1 .. 5 \cup 11 .. 25 =>
            \A r \in Register \ {"rax", "r10", "rbp", "rsp"} : reg[r] = entry[r]
    /\ pc \in 2 .. 5 \cup 11 .. 25 => reg["rax"] = Sysnum
    /\ pc \in 3 .. 5 \cup 11 .. 25 => reg["r10"] = entry["rcx"]
    /\ pc \in 1 .. 4 => reg["rbp"] = entry["rbp"]
    /\ pc \in {5, 11, 12} => reg["rbp"] = Base - 2
    /\ pc \in 13 .. 27 \cup {Address("handler")} => reg["rbp"] = Base - 4
    /\ pc \in {26, Address("handler")} => reg["rdi"] = Base - 16

\* On the way back they are the block's, from the first that is popped.
RegistersBack ==
    /\ pc \in 27 .. 38 => \A i \in 1 .. pc - 27 : FieldOrder[i] # "rsp" =>
                              reg[FieldOrder[i]] = Saved(FieldOrder[i])
    /\ pc \in {39, 40, 6, 7, 8, 10} =>
            \A r \in Register \ {"rbp", "rsp"} : reg[r] = Saved(r)
    /\ pc \in {9, Address("cerror")} => reg["rdi"] = outcome.rax
    /\ pc \in {7, 8, 9, 10, Address("cerror")} => reg["rbp"] = entry["rbp"]

Resumed ==
    pc = PROGRAM /\ Decided =>
        /\ reg["rbp"] = entry["rbp"]
        /\ outcome.carry = 1 => reg["rax"] = -1 /\ reg["rdx"] = -1
        /\ outcome.carry = 0 => \A r \in Register \ {"rbp", "rsp"} : reg[r] = Saved(r)

FollowsText ==
    TypeOK /\ Phases /\ FramesInPlace /\ RegistersOut /\ RegistersBack /\ Resumed
=============================================================================
