------------------------- MODULE LinuxSyscallProofs -------------------------
(***************************************************************************)
(* Proofs about LinuxSyscall: what Linux is asked for and what the caller  *)
(* of linux_syscall gets back, on both architectures, for every number,    *)
(* every argument and signals at every instruction.                        *)
(***************************************************************************)
EXTENDS LinuxSyscall, TLAPS

-----------------------------------------------------------------------------
(***************************************************************************)
(* The text.                                                               *)
(***************************************************************************)
Symbol ==
    {"rax", "rbx", "rcx", "rdx", "rsi", "rdi", "rbp", "rsp", "r8", "r9", "r10", "r11",
     "push", "pop", "load", "mov", "kernel", "ret", "none"}
Instruction == [op : Symbol, a : Symbol, b : Symbol \cup Int]

\* A list of n instructions or words, and one list after another.  (The names keep the solver
\* from unfolding them without end.)
Member == Instruction \cup Int
List(s, n) == s \in Seq(Member) /\ Len(s) = n
Join(s, t) == s \o t

LEMMA Joined ==
    ASSUME NEW m \in Nat, NEW n \in Nat, NEW s, NEW t, List(s, m), List(t, n)
    PROVE  /\ List(Join(s, t), m + n)
           /\ \A i \in 1 .. m : Join(s, t)[i] = s[i]
           /\ \A i \in 1 .. n : Join(s, t)[m + i] = t[i]
BY DEF List, Join

LEMMA SavesParts ==
    /\ List(Saves, 4)
    /\ \A i \in 1 .. 4 : Saves[i].op = "push"
    /\ Saves[1].a = "rbx" /\ Saves[2].a = "rsi" /\ Saves[3].a = "rdi" /\ Saves[4].a = "rbp"
<1>1. List(Saves, 4)
    BY DEF List, Member, Saves, Push, Op, Instruction, Symbol
<1>2. /\ Saves[1] = Op("push", "rbx", 0) /\ Saves[2] = Op("push", "rsi", 0)
      /\ Saves[3] = Op("push", "rdi", 0) /\ Saves[4] = Op("push", "rbp", 0)
    BY DEF Saves, Push
<1> QED BY <1>1, <1>2 DEF Op

LEMMA RestoresParts ==
    /\ List(Restores, 4)
    /\ \A i \in 1 .. 4 : Restores[i].op = "pop" /\ Restores[i].a = Saves[5 - i].a
<1>1. List(Restores, 4)
    BY DEF List, Member, Restores, Pop, Op, Instruction, Symbol
<1>2. /\ Restores[1] = Op("pop", "rbp", 0) /\ Restores[2] = Op("pop", "rdi", 0)
      /\ Restores[3] = Op("pop", "rsi", 0) /\ Restores[4] = Op("pop", "rbx", 0)
    BY DEF Restores, Pop
<1>3. /\ Restores[1].a = "rbp" /\ Restores[2].a = "rdi"
      /\ Restores[3].a = "rsi" /\ Restores[4].a = "rbx"
      /\ Restores[1].op = "pop" /\ Restores[2].op = "pop"
      /\ Restores[3].op = "pop" /\ Restores[4].op = "pop"
    BY <1>2 DEF Op
<1>4. ASSUME NEW i \in 1 .. 4
      PROVE  Restores[i].op = "pop" /\ Restores[i].a = Saves[5 - i].a
    <2>1. i \in {1, 2, 3, 4}
        OBVIOUS
    <2> QED BY <2>1, <1>3, SavesParts
<1> QED BY <1>1, <1>4

LEMMA KernelArgsParts ==
    /\ KernelArgs["i386"][1] = "rbx" /\ KernelArgs["i386"][2] = "rcx"
    /\ KernelArgs["i386"][3] = "rdx" /\ KernelArgs["i386"][4] = "rsi"
    /\ KernelArgs["i386"][5] = "rdi" /\ KernelArgs["i386"][6] = "rbp"
    /\ KernelArgs["x86_64"][1] = "rdi" /\ KernelArgs["x86_64"][2] = "rsi"
    /\ KernelArgs["x86_64"][3] = "rdx" /\ KernelArgs["x86_64"][4] = "r10"
    /\ KernelArgs["x86_64"][5] = "r8" /\ KernelArgs["x86_64"][6] = "r9"
BY DEF KernelArgs

LEMMA CArgsParts ==
    /\ CArgs[1] = "rdi" /\ CArgs[2] = "rsi" /\ CArgs[3] = "rdx"
    /\ CArgs[4] = "rcx" /\ CArgs[5] = "r8" /\ CArgs[6] = "r9"
BY DEF CArgs

\* The kernel's first six arguments are loaded one after the other.
LEMMA TextOfI386 ==
    ASSUME arch = "i386"
    PROVE  /\ DOMAIN Text[arch] = 1 .. 17
           /\ \A i \in 1 .. 4 : Text[arch][i].op = "push" /\ Text[arch][i].a = Saves[i].a
           /\ \A i \in 1 .. 6 : /\ Text[arch][4 + i].op = "load"
                                /\ Text[arch][4 + i].a = KernelArgs["i386"][i]
                                /\ Text[arch][4 + i].b = 16 + 4 * i
           /\ Text[arch][11].op = "load" /\ Text[arch][11].a = "rax" /\ Text[arch][11].b = 44
           /\ Text[arch][12].op = "kernel"
           /\ \A i \in 1 .. 4 : /\ Text[arch][12 + i].op = "pop"
                                /\ Text[arch][12 + i].a = Restores[i].a
           /\ Text[arch][17].op = "ret"
<1> DEFINE middle == << Load(20, "rbx"), Load(24, "rcx"), Load(28, "rdx"), Load(32, "rsi"),
                        Load(36, "rdi"), Load(40, "rbp"), Load(44, "rax"), Kernel >>
           end == << Ret >>
<1>1. List(middle, 8)
    BY DEF List, Member, Load, Kernel, Op, Instruction, Symbol
<1>2. /\ middle[1] = Op("load", "rbx", 20) /\ middle[2] = Op("load", "rcx", 24)
      /\ middle[3] = Op("load", "rdx", 28) /\ middle[4] = Op("load", "rsi", 32)
      /\ middle[5] = Op("load", "rdi", 36) /\ middle[6] = Op("load", "rbp", 40)
      /\ middle[7] = Op("load", "rax", 44) /\ middle[8] = Op("kernel", "none", "none")
    BY DEF Load, Kernel
<1>3. List(end, 1) /\ end[1] = Op("ret", "none", "none")
    BY DEF List, Member, Ret, Op, Instruction, Symbol
<1>4. I386 = ((Saves \o middle) \o Restores) \o end
    BY DEF I386
<1> HIDE DEF middle, end
<1> DEFINE b2 == Join(Saves, middle)
           b3 == Join(b2, Restores)
<1>5. I386 = Join(b3, end)
    BY <1>4 DEF Join
<1> HIDE DEF b2, b3
<1>6. /\ List(b2, 12) /\ \A i \in 1 .. 4 : b2[i] = Saves[i]
      /\ \A i \in 1 .. 8 : b2[4 + i] = middle[i]
    BY <1>1, SavesParts, Joined DEF b2
<1>7. /\ List(b3, 16) /\ \A i \in 1 .. 12 : b3[i] = b2[i]
      /\ \A i \in 1 .. 4 : b3[12 + i] = Restores[i]
    BY <1>6, RestoresParts, Joined DEF b3
<1>8. /\ List(I386, 17) /\ \A i \in 1 .. 16 : I386[i] = b3[i]
      /\ \A i \in 1 .. 1 : I386[16 + i] = end[i]
    BY <1>3, <1>5, <1>7, Joined
<1>9. \A i \in 1 .. 4 : I386[i] = Saves[i] /\ I386[12 + i] = Restores[i]
    <2> TAKE i \in 1 .. 4
    <2>1. i \in 1 .. 12 /\ i \in 1 .. 16 /\ 12 + i \in 1 .. 16
        OBVIOUS
    <2> QED BY <1>6, <1>7, <1>8, <2>1
<1>10. \A i \in 1 .. 8 : I386[4 + i] = middle[i]
    <2> TAKE i \in 1 .. 8
    <2>1. 4 + i \in 1 .. 12 /\ 4 + i \in 1 .. 16
        OBVIOUS
    <2> QED BY <1>6, <1>7, <1>8, <2>1
<1>11. I386[17] = end[1]
    BY <1>8
<1>12. Text[arch] = I386
    BY DEF Text
<1>13. DOMAIN I386 = 1 .. 17
    BY <1>8 DEF List
<1>14. I386[11] = middle[7] /\ I386[12] = middle[8]
    BY <1>10
<1>15. /\ I386[11].op = "load" /\ I386[11].a = "rax" /\ I386[11].b = 44
       /\ I386[12].op = "kernel" /\ I386[17].op = "ret"
    BY <1>2, <1>3, <1>11, <1>14 DEF Op
<1>16. \A i \in 1 .. 6 : /\ I386[4 + i].op = "load" /\ I386[4 + i].a = KernelArgs["i386"][i]
                         /\ I386[4 + i].b = 16 + 4 * i
    <2> TAKE i \in 1 .. 6
    <2>1. i \in {1, 2, 3, 4, 5, 6} /\ I386[4 + i] = middle[i]
        BY <1>10
    <2>2. middle[i] = Op("load", KernelArgs["i386"][i], 16 + 4 * i)
        BY <1>2, <2>1, KernelArgsParts
    <2> QED BY <2>1, <2>2 DEF Op
<1> QED BY <1>9, <1>12, <1>13, <1>15, <1>16, SavesParts, RestoresParts

LEMMA TextOfX86_64 ==
    ASSUME arch = "x86_64"
    PROVE  /\ DOMAIN Text[arch] = 1 .. 4
           /\ Text[arch][1].op = "load" /\ Text[arch][1].a = "rax" /\ Text[arch][1].b = 8
           /\ Text[arch][2].op = "mov" /\ Text[arch][2].a = "r10" /\ Text[arch][2].b = "rcx"
           /\ Text[arch][3].op = "kernel" /\ Text[arch][4].op = "ret"
<1>1. Text[arch] = X86_64
    BY DEF Text
<1>2. /\ DOMAIN X86_64 = 1 .. 4 /\ X86_64[1] = Op("load", "rax", 8)
      /\ X86_64[2] = Op("mov", "r10", "rcx") /\ X86_64[3] = Op("kernel", "none", "none")
      /\ X86_64[4] = Op("ret", "none", "none")
    BY DEF X86_64, Load, Mov, Kernel, Ret
<1> QED BY <1>1, <1>2 DEF Op

\* Where each operation stands.
LEMMA PlacesOfX86_64 ==
    ASSUME arch = "x86_64", pc \in DOMAIN Text[arch]
    PROVE  /\ pc \in 1 .. 4 /\ ~At("push") /\ ~At("pop")
           /\ At("load") => pc = 1 /\ A = "rax" /\ B = 8
           /\ At("mov") => pc = 2 /\ A = "r10" /\ B = "rcx"
           /\ At("kernel") => pc = 3
           /\ At("ret") => pc = 4
<1>1. pc \in {1, 2, 3, 4}
    BY TextOfX86_64
<1> QED BY <1>1, TextOfX86_64 DEF At, A, B

LEMMA PlacesOfI386 ==
    ASSUME arch = "i386", pc \in DOMAIN Text[arch]
    PROVE  /\ pc \in 1 .. 17 /\ ~At("mov")
           /\ At("push") => pc \in 1 .. 4 /\ A = Saves[pc].a
           /\ At("load") => \/ pc \in 5 .. 10 /\ A = KernelArgs["i386"][pc - 4]
                                              /\ B = 16 + 4 * (pc - 4)
                            \/ pc = 11 /\ A = "rax" /\ B = 44
           /\ At("kernel") => pc = 12
           /\ At("pop") => pc \in 13 .. 16 /\ A = Saves[17 - pc].a
           /\ At("ret") => pc = 17
<1>1. pc \in 1 .. 4 \/ pc \in 5 .. 10 \/ pc \in {11, 12, 17} \/ pc \in 13 .. 16
    BY TextOfI386
<1>2. CASE pc \in 1 .. 4
    BY <1>2, TextOfI386 DEF At, A, B
<1>3. CASE pc \in 5 .. 10
    <2>1. pc - 4 \in 1 .. 6 /\ pc = 4 + (pc - 4)
        BY <1>3
    <2>2. /\ Text[arch][pc].op = "load" /\ Text[arch][pc].a = KernelArgs["i386"][pc - 4]
          /\ Text[arch][pc].b = 16 + 4 * (pc - 4)
        <3>1. /\ Text[arch][4 + (pc - 4)].op = "load"
              /\ Text[arch][4 + (pc - 4)].a = KernelArgs["i386"][pc - 4]
              /\ Text[arch][4 + (pc - 4)].b = 16 + 4 * (pc - 4)
            BY <2>1, TextOfI386
        <3> QED BY <2>1, <3>1
    <2> QED BY <1>3, <2>2 DEF At, A, B
<1>4. CASE pc \in {11, 12, 17}
    BY <1>4, TextOfI386 DEF At, A, B
<1>5. CASE pc \in 13 .. 16
    <2>1. pc - 12 \in 1 .. 4 /\ pc = 12 + (pc - 12) /\ 5 - (pc - 12) = 17 - pc
        BY <1>5
    <2>2. Text[arch][pc].op = "pop" /\ Text[arch][pc].a = Restores[pc - 12].a
        <3>1. /\ Text[arch][12 + (pc - 12)].op = "pop"
              /\ Text[arch][12 + (pc - 12)].a = Restores[pc - 12].a
            BY <2>1, TextOfI386
        <3> QED BY <2>1, <3>1
    <2>3. Restores[pc - 12].a = Saves[5 - (pc - 12)].a
        BY <2>1, RestoresParts
    <2> QED BY <1>5, <2>1, <2>2, <2>3 DEF At, A, B
<1> QED BY <1>1, <1>2, <1>3, <1>4, <1>5

-----------------------------------------------------------------------------
(***************************************************************************)
(* The state.                                                              *)
(***************************************************************************)
LEMMA PaddedType ==
    \A c \in Calls : /\ Padded(c.args) \in [1 .. 6 -> Int]
                     /\ c.nr \in Number /\ c.nr \in Int /\ 0 <= c.nr /\ c.nr < Half
<1> TAKE c \in Calls
<1>1. PICK n \in 0 .. 6 : c.args = [i \in 1 .. n |-> Argument + i - 1]
    BY DEF Calls
<1>2. Argument \in Int /\ Half \in Nat /\ Number \subseteq 0 .. Half - 1
    BY MachineAssumption
<1>3. \A i \in DOMAIN c.args : c.args[i] \in Int
    BY <1>1, <1>2
<1>4. Padded(c.args) \in [1 .. 6 -> Int]
    BY <1>3 DEF Padded
<1>5. c.nr \in Number
    BY DEF Calls
<1>6. c.nr \in 0 .. Half - 1
    BY <1>2, <1>5
<1> QED BY <1>2, <1>4, <1>5, <1>6

\* The lower half of the stack slot of an int.
LEMMA LowerHalf ==
    ASSUME NEW H \in Nat, NEW upper \in Nat, NEW nr \in 0 .. H - 1
    PROVE  (nr + upper * H) % H = nr /\ nr + upper * H \in Int
OBVIOUS

\* A call has room on the stack for all it may put there.
LEMMA StackRoom ==
    ASSUME NEW sp \in Top
    PROVE  /\ sp \in Int /\ sp \in Stack
           /\ \A d \in 0 .. 12 : sp - d \in Stack /\ sp - d \in Int
<1>1. sp \in Int /\ sp - 12 .. sp + 1 \subseteq Stack
    BY MachineAssumption
<1>2. \A d \in 0 .. 12 : sp - d \in sp - 12 .. sp + 1 /\ sp - d \in Int
    BY <1>1
<1> QED BY <1>1, <1>2

LEMMA StateParts ==
    ASSUME FollowsText
    PROVE  /\ arch \in Archs /\ (arch = "x86_64" \/ arch = "i386")
           /\ reg \in [Register -> Int] /\ entry \in [Register -> Int]
           /\ mem \in [Stack -> Int] /\ call \in Calls
           /\ pc \in DOMAIN Text[arch] \cup {-1, -2}
           /\ Base \in Top /\ Base \in Int /\ Full \in [1 .. 6 -> Int]
           /\ \A d \in 0 .. 12 : Base - d \in Stack /\ Base - d \in Int
           /\ kernel.result \in Result \cup {0}
<1>1. /\ arch \in Archs /\ reg \in [Register -> Int] /\ entry \in [Register -> Int]
      /\ mem \in [Stack -> Int] /\ call \in Calls /\ Base \in Top
      /\ pc \in DOMAIN Text[arch] \cup {-1, -2} /\ kernel.result \in Result \cup {0}
    BY DEF FollowsText, TypeOK, Phases, CALLER, KERNEL
<1>2. arch = "x86_64" \/ arch = "i386"
    BY <1>1, MachineAssumption
<1>3. Full \in [1 .. 6 -> Int]
    BY <1>1, PaddedType DEF Full
<1> QED BY <1>1, <1>2, <1>3, StackRoom

LEMMA RegisterNames ==
    /\ {"rax", "rbx", "rcx", "rdx", "rsi", "rdi", "rbp", "rsp", "r8", "r9", "r10", "r11"}
           \subseteq Register
    /\ \A i \in 1 .. 4 : Saves[i].a \in Register \ {"rax", "rcx", "rdx", "rsp", "r11"}
    /\ \A i \in 1 .. 6 : KernelArgs["i386"][i] \in Register \ {"rax", "rsp"}
    /\ \A i \in 1 .. 6 : CArgs[i] \in Register \ {"rax", "rsp", "r10", "r11"}
<1>1. {"rax", "rbx", "rcx", "rdx", "rsi", "rdi", "rbp", "rsp", "r8", "r9", "r10", "r11"}
           \subseteq Register
    BY DEF Register
<1>2. ASSUME NEW i \in 1 .. 4
      PROVE  Saves[i].a \in Register \ {"rax", "rcx", "rdx", "rsp", "r11"}
    <2>1. i \in {1, 2, 3, 4}
        OBVIOUS
    <2> QED BY <1>1, <2>1, SavesParts
<1>3. ASSUME NEW i \in 1 .. 6
      PROVE  /\ KernelArgs["i386"][i] \in Register \ {"rax", "rsp"}
             /\ CArgs[i] \in Register \ {"rax", "rsp", "r10", "r11"}
    <2>1. i \in {1, 2, 3, 4, 5, 6}
        OBVIOUS
    <2> QED BY <1>1, <2>1, KernelArgsParts, CArgsParts
<1> QED BY <1>1, <1>2, <1>3

\* No two of the registers that are saved, or of those that are loaded, are the same.
LEMMA Distinct ==
    /\ \A i, j \in 1 .. 4 : Saves[i].a = Saves[j].a => i = j
    /\ \A i, j \in 1 .. 6 : KernelArgs["i386"][i] = KernelArgs["i386"][j] => i = j
    /\ \A i, j \in 1 .. 6 : CArgs[i] = CArgs[j] => i = j
<1>1. ASSUME NEW i \in 1 .. 4, NEW j \in 1 .. 4, Saves[i].a = Saves[j].a
      PROVE  i = j
    <2>1. i \in {1, 2, 3, 4} /\ j \in {1, 2, 3, 4}
        OBVIOUS
    <2> QED BY <1>1, <2>1, SavesParts
<1>2. ASSUME NEW i \in 1 .. 6, NEW j \in 1 .. 6,
             KernelArgs["i386"][i] = KernelArgs["i386"][j]
      PROVE  i = j
    <2>1. i \in {1, 2, 3, 4, 5, 6} /\ j \in {1, 2, 3, 4, 5, 6}
        OBVIOUS
    <2> QED BY <1>2, <2>1, KernelArgsParts
<1>3. ASSUME NEW i \in 1 .. 6, NEW j \in 1 .. 6, CArgs[i] = CArgs[j]
      PROVE  i = j
    <2>1. i \in {1, 2, 3, 4, 5, 6} /\ j \in {1, 2, 3, 4, 5, 6}
        OBVIOUS
    <2> QED BY <1>3, <2>1, CArgsParts
<1> QED BY <1>1, <1>2, <1>3

LEMMA Depths ==
    /\ \A p \in 1 .. 4 : Saved(p) = p - 1
    /\ \A p \in 5 .. 12 : Saved(p) = 4
    /\ Saved(-2) = 4
    /\ \A p \in 13 .. 17 : Saved(p) = 17 - p
BY DEF Saved, KERNEL

\* What the steps that leave the call alone also leave alone.
LEMMA SameCall ==
    ASSUME UNCHANGED <<arch, call, entry>>
    PROVE  Base' = Base /\ Full' = Full /\ Gate' = Gate /\ Text[arch]' = Text[arch]
BY DEF Base, Full, Gate

LEMMA SameAnswer ==
    ASSUME UNCHANGED <<arch, call, entry, kernel>>
    PROVE  /\ Base' = Base /\ Full' = Full /\ Gate' = Gate /\ Text[arch]' = Text[arch]
           /\ Asked' = Asked /\ kernel' = kernel
BY SameCall DEF Asked

-----------------------------------------------------------------------------
(***************************************************************************)
(* The call and the kernel.                                                *)
(***************************************************************************)
LEMMA InitFollows == Init => FollowsText
<1> SUFFICES ASSUME Init
             PROVE  FollowsText
    OBVIOUS
<1>1. PICK sp \in Top : reg = Fresh(sp)
    BY DEF Init
<1>2. /\ arch \in Archs /\ mem = [x \in Stack |-> Scrap] /\ pc = -1 /\ call \in Calls
      /\ entry = reg /\ kernel = [nr |-> -1, args |-> <<>>, result |-> 0]
    BY DEF Init, CALLER, NotAsked
<1>3. Scrap \in Int /\ sp \in Int /\ sp \in Stack
    BY MachineAssumption, StackRoom
<1>4. reg \in [Register -> Int] /\ reg["rsp"] = sp
    BY <1>1, <1>3, RegisterNames DEF Fresh
<1>5. TypeOK
    BY <1>2, <1>3, <1>4 DEF TypeOK, CALLER
<1>6. ~Asked
    BY <1>2 DEF Asked
<1>7. arch = "x86_64" \/ arch = "i386"
    BY <1>2, MachineAssumption
<1>8. Gate \in {3, 12}
    BY DEF Gate
<1>9. Phases
    BY <1>2, <1>4, <1>6, <1>8 DEF Phases, Base, CALLER, KERNEL
<1> QED BY <1>2, <1>5, <1>6, <1>9 DEF FollowsText, OnX86_64, OnI386, StackOfI386, CALLER

\* The words a compiler pushes for i386.
LEMMA PushedOnI386 ==
    ASSUME NEW full \in [1 .. 6 -> Int], NEW nr \in Int, NEW pushed,
           pushed = Join(full, <<nr>>)
    PROVE  /\ Len(pushed) = 7 /\ DOMAIN pushed = 1 .. 7
           /\ \A i \in 1 .. 6 : pushed[i] = full[i]
           /\ pushed[7] = nr
<1> DEFINE t == <<nr>>
<1>1. List(full, 6) /\ List(t, 1) /\ t[1] = nr
    <2> DEFINE m == 6
    <2>1. m \in Nat /\ full \in [1 .. m -> Member] /\ nr \in Member
        BY DEF Member
    <2> HIDE DEF m
    <2>2. full \in Seq(Member) /\ Len(full) = m
        BY <2>1
    <2>3. t \in Seq(Member) /\ Len(t) = 1 /\ t[1] = nr
        BY <2>1
    <2> QED BY <2>2, <2>3 DEF List, m
<1> HIDE DEF t
<1>2. /\ List(Join(full, t), 7)
      /\ \A i \in 1 .. 6 : Join(full, t)[i] = full[i]
      /\ \A i \in 1 .. 1 : Join(full, t)[6 + i] = t[i]
    BY <1>1, Joined
<1>3. Join(full, t)[7] = nr
    BY <1>1, <1>2
<1>4. Len(Join(full, t)) = 7 /\ DOMAIN Join(full, t) = 1 .. 7
    BY <1>2 DEF List
<1>5. pushed = Join(full, t)
    BY DEF t
<1> QED BY <1>2, <1>3, <1>4, <1>5

\* The compiler's call puts everything where linux_syscall looks for it.
LEMMA CallStep == FollowsText /\ CallLinuxSyscall => FollowsText'
<1> SUFFICES ASSUME FollowsText, CallLinuxSyscall
             PROVE  FollowsText'
    OBVIOUS
<1> DEFINE pushed(c, upper) == IF arch = "x86_64" THEN <<c.nr + upper * Half>>
                               ELSE Padded(c.args) \o <<c.nr>>
           before(c, sp) ==
               [r \in Register |->
                   IF r = "rsp" THEN sp
                   ELSE IF arch = "x86_64" /\ \E i \in 1 .. 6 : CArgs[i] = r
                   THEN Padded(c.args)[CHOOSE i \in 1 .. 6 : CArgs[i] = r]
                   ELSE IF r \in CalleeSaved(arch) THEN Kept[r] ELSE Scrap]
<1>1. PICK c \in Calls, sp \in Top, upper \in Garbage :
         /\ call' = c /\ entry' = before(c, sp)
         /\ reg' = [before(c, sp) EXCEPT !["rsp"] = sp - Len(pushed(c, upper)) - 1]
         /\ mem' = [x \in Stack |->
                       LET i == x - (sp - Len(pushed(c, upper))) + 1
                       IN  IF i = 0 THEN CALLER
                           ELSE IF i \in DOMAIN pushed(c, upper) THEN pushed(c, upper)[i]
                           ELSE mem[x]]
    BY ZenonT(60) DEF CallLinuxSyscall
<1>2. /\ arch' = arch /\ pc' = 1 /\ kernel' = [nr |-> -1, args |-> <<>>, result |-> 0]
    BY DEF CallLinuxSyscall, NotAsked
<1>3. /\ Padded(c.args) \in [1 .. 6 -> Int] /\ c.nr \in Int /\ c.nr \in 0 .. Half - 1
      /\ Half \in Nat /\ upper \in Nat /\ Scrap \in Int
    BY PaddedType, MachineAssumption
<1>4. /\ arch = "x86_64" \/ arch = "i386"
      /\ mem \in [Stack -> Int] /\ Stack \subseteq Int
      /\ sp \in Int /\ \A d \in 0 .. 12 : sp - d \in Stack /\ sp - d \in Int
    BY StateParts, StackRoom, MachineAssumption
<1>5. before(c, sp) \in [Register -> Int] /\ before(c, sp)["rsp"] = sp
    <2>1. ASSUME NEW r \in Register, NEW j \in 1 .. 6, CArgs[j] = r
          PROVE  Padded(c.args)[CHOOSE i \in 1 .. 6 : CArgs[i] = r] \in Int
        <3>1. (CHOOSE i \in 1 .. 6 : CArgs[i] = r) \in 1 .. 6
            BY <2>1
        <3> QED BY <1>3, <3>1
    <2>2. ASSUME NEW r \in Register \ {"rsp"}, r \in CalleeSaved(arch)
          PROVE  Kept[r] \in Int
        <3>1. r \in {"rbx", "rbp", "rsi", "rdi"}
            BY <2>2 DEF CalleeSaved
        <3> QED BY <1>3, <3>1 DEF Kept
    <2> HIDE DEF CArgs, Kept
    <2> QED BY <1>3, <1>4, <2>1, <2>2, RegisterNames
<1>6. arch = "x86_64" => \A i \in 1 .. 6 : before(c, sp)[CArgs[i]] = Padded(c.args)[i]
    <2> SUFFICES ASSUME arch = "x86_64", NEW j \in 1 .. 6
                 PROVE  before(c, sp)[CArgs[j]] = Padded(c.args)[j]
        OBVIOUS
    <2>1. (CHOOSE i \in 1 .. 6 : CArgs[i] = CArgs[j]) = j
        BY Distinct
    <2> QED BY <2>1, RegisterNames
<1> HIDE DEF before
<1>7. /\ Base' = sp /\ Full' = Padded(c.args) /\ ~Asked' /\ Gate' = Gate /\ Gate \in {3, 12}
    BY <1>1, <1>2, <1>5 DEF Base, Full, Asked, Gate
<1>8. /\ reg' \in [Register -> Int] /\ entry' \in [Register -> Int]
      /\ reg'["rsp"] = sp - Len(pushed(c, upper)) - 1
      /\ \A r \in Register \ {"rsp"} : reg'[r] = entry'[r]
    <2>1. Len(pushed(c, upper)) \in Int
        BY <1>3, <1>4, PushedOnI386
    <2> DEFINE v == sp - Len(pushed(c, upper)) - 1
    <2>2. v \in Int
        BY <1>4, <2>1
    <2>3. reg' = [before(c, sp) EXCEPT !["rsp"] = v] /\ entry' = before(c, sp)
        BY <1>1
    <2>4. "rsp" \in Register
        BY RegisterNames
    <2> HIDE DEF v
    <2>5. /\ reg' \in [Register -> Int] /\ entry' \in [Register -> Int] /\ reg'["rsp"] = v
          /\ \A r \in Register \ {"rsp"} : reg'[r] = entry'[r]
        BY <1>5, <2>2, <2>3, <2>4
    <2> QED BY <2>5 DEF v
<1>9. Phases'
    BY <1>1, <1>2, <1>7 DEF Phases, CALLER, KERNEL
<1>10. CASE arch = "x86_64"
    <2>1. pushed(c, upper) = <<c.nr + upper * Half>>
        BY <1>10
    <2>2. Len(pushed(c, upper)) = 1 /\ DOMAIN pushed(c, upper) = 1 .. 1
        BY <2>1
    <2>3. /\ pushed(c, upper)[1] = c.nr + upper * Half /\ pushed(c, upper)[1] \in Int
          /\ pushed(c, upper)[1] % Half = c.nr
        <3> DEFINE w == c.nr + upper * Half
        <3>1. w \in Int /\ w % Half = c.nr
            BY <1>3, LowerHalf
        <3>2. pushed(c, upper) = <<w>>
            BY <2>1
        <3> HIDE DEF w, pushed
        <3>3. pushed(c, upper)[1] = w
            BY <3>2
        <3>4. w = c.nr + upper * Half
            BY DEF w
        <3> QED BY <3>1, <3>3, <3>4
    <2> HIDE DEF pushed
    <2>4. /\ mem' \in [Stack -> Int] /\ mem'[sp - 2] = -1
          /\ mem'[sp - 1] = pushed(c, upper)[1]
        <3>1. mem' = [x \in Stack |-> IF x - (sp - 1) + 1 = 0 THEN -1
                                      ELSE IF x - (sp - 1) + 1 \in 1 .. 1
                                      THEN pushed(c, upper)[x - (sp - 1) + 1] ELSE mem[x]]
            BY <1>1, <2>2 DEF CALLER
        <3>2. \A x \in Stack : x - (sp - 1) + 1 \in 1 .. 1 => x - (sp - 1) + 1 = 1
            BY <1>4
        <3>3. sp - 1 \in Stack /\ sp - 2 \in Stack
            BY <1>4
        <3> QED BY <1>4, <2>3, <3>1, <3>2, <3>3
    <2>5. reg'["rsp"] = sp - 2 /\ sp - 2 \in Stack
        BY <1>4, <1>8, <2>2
    <2>6. TypeOK'
        <3>1. 1 \in DOMAIN Text[arch]
            BY <1>10, TextOfX86_64
        <3>2. arch \in Archs
            BY StateParts
        <3>3. kernel'.result \in Result \cup {0} /\ pc' \in DOMAIN Text[arch]' /\ arch' \in Archs
            BY <1>2, <3>1, <3>2
        <3>4. reg'["rsp"] \in Stack /\ call' \in Calls
            BY <1>1, <2>5
        <3> QED BY <1>8, <2>4, <3>3, <3>4 DEF TypeOK
    <2>7. \A i \in 1 .. 6 : reg'[CArgs[i]] = Padded(c.args)[i]
        BY <1>1, <1>6, <1>8, <1>10, RegisterNames
    <2>8. reg'["rbx"] = entry'["rbx"] /\ reg'["rbp"] = entry'["rbp"]
        BY <1>8, RegisterNames
    <2>9. OnX86_64'
        BY <1>1, <1>2, <1>7, <2>3, <2>4, <2>5, <2>7, <2>8 DEF OnX86_64, CALLER
    <2> QED BY <1>2, <1>9, <1>10, <2>6, <2>9 DEF FollowsText
<1>11. CASE arch = "i386"
    <2>1. pushed(c, upper) = Join(Padded(c.args), <<c.nr>>)
        BY <1>11 DEF Join
    <2>2. /\ Len(pushed(c, upper)) = 7 /\ DOMAIN pushed(c, upper) = 1 .. 7
          /\ \A i \in 1 .. 6 : pushed(c, upper)[i] = Padded(c.args)[i]
          /\ pushed(c, upper)[7] = c.nr
        <3> HIDE DEF pushed
        <3> QED BY <1>3, <2>1, PushedOnI386
    <2>3. \A i \in 1 .. 7 : pushed(c, upper)[i] \in Int
        <3> TAKE i \in 1 .. 7
        <3>1. i \in 1 .. 6 \/ i = 7
            OBVIOUS
        <3> QED BY <1>3, <2>2, <3>1
    <2> HIDE DEF pushed
    <2>4. mem' = [x \in Stack |-> IF x - (sp - 7) + 1 = 0 THEN -1
                                  ELSE IF x - (sp - 7) + 1 \in 1 .. 7
                                  THEN pushed(c, upper)[x - (sp - 7) + 1] ELSE mem[x]]
        BY <1>1, <2>2 DEF CALLER
    <2>5. mem' \in [Stack -> Int]
        BY <1>4, <2>3, <2>4
    <2>6. mem'[sp - 8] = -1
        <3>1. sp - 8 \in Stack /\ (sp - 8) - (sp - 7) + 1 = 0
            BY <1>4
        <3> QED BY <2>4, <3>1
    <2>7. ASSUME NEW i \in 1 .. 7
          PROVE  mem'[sp - 8 + i] = pushed(c, upper)[i]
        <3>1. 8 - i \in 0 .. 12 /\ sp - (8 - i) = sp - 8 + i
              /\ (sp - 8 + i) - (sp - 7) + 1 = i /\ i # 0
            BY <1>4
        <3>2. sp - 8 + i \in Stack
            BY <1>4, <3>1
        <3> QED BY <2>4, <3>1, <3>2
    <2>8. mem'[sp - 1] = c.nr
        <3>1. sp - 8 + 7 = sp - 1 /\ 7 \in 1 .. 7
            BY <1>4
        <3>2. mem'[sp - 8 + 7] = pushed(c, upper)[7]
            BY <2>7, <3>1
        <3> QED BY <2>2, <3>1, <3>2
    <2>9. \A i \in 1 .. 6 : mem'[sp - 8 + i] = Padded(c.args)[i]
        <3> TAKE i \in 1 .. 6
        <3>1. i \in 1 .. 7
            OBVIOUS
        <3> QED BY <2>2, <2>7, <3>1
    <2>10. reg'["rsp"] = sp - 8 - 0 /\ sp - 8 \in Stack /\ reg'["rsp"] = sp - 8
        BY <1>4, <1>8, <2>2
    <2>11. TypeOK'
        <3>1. 1 \in DOMAIN Text[arch]
            BY <1>11, TextOfI386
        <3>2. arch \in Archs
            BY StateParts
        <3>3. kernel'.result \in Result \cup {0} /\ pc' \in DOMAIN Text[arch]' /\ arch' \in Archs
            BY <1>2, <3>1, <3>2
        <3>4. reg'["rsp"] \in Stack /\ call' \in Calls
            BY <1>1, <2>10
        <3> QED BY <1>8, <2>5, <3>3, <3>4 DEF TypeOK
    <2>12. Saved(pc') = 0
        BY <1>2, Depths
    <2>13. StackOfI386'
        <3>1. \A i \in 1 .. Saved(pc') : FALSE
            BY <2>12
        <3> QED BY <1>1, <1>7, <2>6, <2>8, <2>9, <2>10, <2>12, <3>1 DEF StackOfI386, CALLER
    <2>14. \A i \in 1 .. 4 : reg'[Saves[i].a] = entry'[Saves[i].a]
        BY <1>8, RegisterNames
    <2>15. OnI386'
        BY <1>2, <2>13, <2>14 DEF OnI386, CALLER
    <2> QED BY <1>2, <1>9, <1>11, <2>11, <2>15 DEF FollowsText
<1> QED BY <1>4, <1>10, <1>11

\* The text enters the kernel at one place, after which the kernel returns to it.
LEMMA GateParts ==
    ASSUME FollowsText
    PROVE  /\ At("kernel") => pc = Gate
           /\ (CHOOSE i \in DOMAIN Text[arch] : Text[arch][i].op = "kernel") = Gate
           /\ Gate \in DOMAIN Text[arch] /\ Gate + 1 \in DOMAIN Text[arch]
           /\ (arch = "x86_64" /\ Gate = 3) \/ (arch = "i386" /\ Gate = 12)
<1>1. CASE arch = "x86_64"
    <2>1. DOMAIN Text[arch] = 1 .. 4 /\ Gate = 3
        BY <1>1, TextOfX86_64 DEF Gate
    <2>2. \A i \in 1 .. 4 : Text[arch][i].op = "kernel" <=> i = 3
        <3> TAKE i \in 1 .. 4
        <3>1. i \in {1, 2, 3, 4}
            OBVIOUS
        <3> QED BY <1>1, <3>1, TextOfX86_64
    <2>3. (CHOOSE i \in DOMAIN Text[arch] : Text[arch][i].op = "kernel") = 3
        BY <2>1, <2>2
    <2> QED BY <1>1, <2>1, <2>2, <2>3 DEF At
<1>2. CASE arch = "i386"
    <2>1. DOMAIN Text[arch] = 1 .. 17 /\ Gate = 12
        BY <1>2, TextOfI386 DEF Gate
    <2>2. \A i \in 1 .. 17 : Text[arch][i].op = "kernel" <=> i = 12
        <3> TAKE i \in 1 .. 17
        <3>1. \/ i \in 1 .. 4 \/ i \in {11, 12, 17}
              \/ i - 4 \in 1 .. 6 /\ 4 + (i - 4) = i /\ i # 12
              \/ i - 12 \in 1 .. 4 /\ 12 + (i - 12) = i /\ i # 12
            OBVIOUS
        <3>2. CASE i \in 1 .. 4 \/ i \in {11, 12, 17}
            BY <1>2, <3>2, TextOfI386
        <3>3. CASE i - 4 \in 1 .. 6 /\ 4 + (i - 4) = i /\ i # 12
            <4>1. Text[arch][4 + (i - 4)].op = "load"
                BY <1>2, <3>3, TextOfI386
            <4> QED BY <3>3, <4>1
        <3>4. CASE i - 12 \in 1 .. 4 /\ 12 + (i - 12) = i /\ i # 12
            <4>1. Text[arch][12 + (i - 12)].op = "pop"
                BY <1>2, <3>4, TextOfI386
            <4> QED BY <3>4, <4>1
        <3> QED BY <3>1, <3>2, <3>3, <3>4
    <2>3. (CHOOSE i \in DOMAIN Text[arch] : Text[arch][i].op = "kernel") = 12
        BY <2>1, <2>2
    <2> QED BY <1>2, <2>1, <2>2, <2>3 DEF At
<1> QED BY <1>1, <1>2, StateParts

-----------------------------------------------------------------------------
(***************************************************************************)
(* What the steps of linux_syscall have in common.                         *)
(***************************************************************************)
LEMMA TypeFollows ==
    ASSUME FollowsText, UNCHANGED <<arch, call, entry>>, reg' \in [Register -> Int],
           mem' \in [Stack -> Int], pc' \in DOMAIN Text[arch] \cup {-1, -2},
           kernel'.result \in Result \cup {0}, NEW d \in 0 .. 12, reg'["rsp"] = Base - d
    PROVE  TypeOK'
<1>1. reg'["rsp"] \in Stack
    BY StateParts
<1>2. /\ arch' \in Archs /\ call' \in Calls /\ entry' \in [Register -> Int]
      /\ Text[arch]' = Text[arch]
    BY StateParts
<1> QED BY <1>1, <1>2 DEF TypeOK, CALLER, KERNEL

\* The steps on either side of the kernel keep to their side and to Linux's answer.
LEMMA PhasesFollow ==
    ASSUME FollowsText, UNCHANGED <<arch, call, entry, kernel>>, pc \in DOMAIN Text[arch],
           \/ pc' = pc + 1 /\ pc # Gate
           \/ pc' = -1 /\ pc > Gate,
           pc > Gate => reg'["rax"] = reg["rax"]
    PROVE  Phases' /\ (pc > Gate => Asked) /\ (pc < Gate => ~Asked)
<1>1. pc \in Int /\ pc >= 1 /\ Gate \in {3, 12}
    BY StateParts, TextOfX86_64, TextOfI386, GateParts
<1>2. /\ pc > Gate => Asked
      /\ pc < Gate => ~Asked
    BY <1>1 DEF FollowsText, Phases
<1>3. /\ Base' \in Top
      /\ Asked => kernel' = [nr |-> call'.nr, args |-> Full', result |-> kernel'.result]
    BY SameAnswer DEF FollowsText, Phases
<1>4. Asked => reg'["rax"] = kernel'.result
    BY <1>1, <1>2 DEF FollowsText, Phases, KERNEL
<1> QED BY <1>1, <1>2, <1>3, <1>4, SameAnswer DEF Phases, CALLER, KERNEL

\* On i386 a step that gives words back, or none, and leaves alone those that remain.
LEMMA StackFollows ==
    ASSUME FollowsText, arch = "i386", UNCHANGED <<arch, call, entry>>, pc # -1, pc' # -1,
           Saved(pc) \in 0 .. 4, Saved(pc') \in 0 .. Saved(pc),
           reg'["rsp"] = Base - 8 - Saved(pc'),
           \A x \in Stack : x >= reg["rsp"] => mem'[x] = mem[x]
    PROVE  StackOfI386'
<1>1. /\ reg["rsp"] = Base - 8 - Saved(pc)
      /\ \A i \in 1 .. 6 : mem[Base - 8 + i] = Full[i]
      /\ mem[Base - 1] = call.nr /\ mem[Base - 8] = -1
      /\ \A i \in 1 .. Saved(pc) : mem[Base - 8 - i] = entry[Saves[i].a]
    BY DEF FollowsText, OnI386, StackOfI386, CALLER
<1>2. Base \in Int /\ \A d \in 0 .. 12 : Base - d \in Stack
    BY StateParts
<1>3. ASSUME NEW i \in 1 .. 6
      PROVE  mem'[Base - 8 + i] = Full[i]
    <2>1. 8 - i \in 0 .. 12 /\ Base - (8 - i) = Base - 8 + i
        BY <1>2
    <2>2. Base - 8 + i \in Stack /\ Base - 8 + i >= reg["rsp"]
        BY <1>1, <1>2, <2>1
    <2> QED BY <1>1, <2>2
<1>4. mem'[Base - 1] = call.nr /\ mem'[Base - 8] = -1
    <2>1. /\ Base - 1 \in Stack /\ Base - 8 \in Stack
          /\ Base - 1 >= reg["rsp"] /\ Base - 8 >= reg["rsp"]
        BY <1>1, <1>2
    <2> QED BY <1>1, <2>1
<1>5. ASSUME NEW i \in 1 .. Saved(pc')
      PROVE  mem'[Base - 8 - i] = entry[Saves[i].a]
    <2>1. i \in 1 .. Saved(pc) /\ 8 + i \in 0 .. 12 /\ Base - (8 + i) = Base - 8 - i
        BY <1>2
    <2>2. Base - 8 - i \in Stack /\ Base - 8 - i >= reg["rsp"]
        BY <1>1, <1>2, <2>1
    <2> QED BY <1>1, <2>1, <2>2
<1>6. Base' = Base /\ Full' = Full
    BY SameCall
<1> QED BY <1>3, <1>4, <1>5, <1>6 DEF StackOfI386, CALLER

LEMMA I386Parts ==
    ASSUME FollowsText, arch = "i386", pc # -1
    PROVE  /\ pc \in 1 .. 17 \cup {-2} /\ Saved(pc) \in 0 .. 4
           /\ reg["rsp"] = Base - 8 - Saved(pc)
           /\ pc \in DOMAIN Text[arch] => pc \in 1 .. 17
<1>1. pc \in 1 .. 17 \cup {-2} /\ (pc \in DOMAIN Text[arch] => pc \in 1 .. 17)
    BY StateParts, TextOfI386
<1>2. Saved(pc) \in 0 .. 4
    BY <1>1, Depths
<1>3. reg["rsp"] = Base - 8 - Saved(pc)
    BY DEF FollowsText, OnI386, StackOfI386, CALLER
<1> QED BY <1>1, <1>2, <1>3

LEMMA X86_64Parts ==
    ASSUME FollowsText, arch = "x86_64", pc # -1
    PROVE  /\ pc \in 1 .. 4 \cup {-2} /\ reg["rsp"] = Base - 2 /\ mem[Base - 2] = -1
           /\ reg["rbx"] = entry["rbx"] /\ reg["rbp"] = entry["rbp"]
           /\ pc \in DOMAIN Text[arch] => pc \in 1 .. 4
<1>1. pc \in 1 .. 4 \cup {-2} /\ (pc \in DOMAIN Text[arch] => pc \in 1 .. 4)
    BY StateParts, TextOfX86_64
<1>2. /\ reg["rsp"] = Base - 2 /\ mem[Base - 2] = -1
      /\ reg["rbx"] = entry["rbx"] /\ reg["rbp"] = entry["rbp"]
    BY DEF FollowsText, OnX86_64, CALLER
<1> QED BY <1>1, <1>2

-----------------------------------------------------------------------------
(***************************************************************************)
(* The steps.                                                              *)
(***************************************************************************)
LEMMA SignalStep == FollowsText /\ Signal => FollowsText'
<1> SUFFICES ASSUME FollowsText, Signal
             PROVE  FollowsText'
    OBVIOUS
<1>1. /\ UNCHANGED <<arch, reg, pc, call, entry, kernel>>
      /\ mem' = [x \in Stack |-> IF x < reg["rsp"] THEN Scrap ELSE mem[x]]
    BY DEF Signal
<1>2. /\ mem \in [Stack -> Int] /\ reg \in [Register -> Int] /\ Stack \subseteq Int
      /\ Scrap \in Int /\ reg["rsp"] \in Int
    BY StateParts, MachineAssumption, RegisterNames
<1>3. mem' \in [Stack -> Int] /\ \A x \in Stack : x >= reg["rsp"] => mem'[x] = mem[x]
    BY <1>1, <1>2
<1>4. /\ Base' = Base /\ Full' = Full /\ Gate' = Gate /\ Text[arch]' = Text[arch]
      /\ Asked' = Asked
    BY <1>1, SameAnswer
<1>5. TypeOK'
    BY <1>1, <1>3, <1>4 DEF FollowsText, TypeOK
<1>6. Phases'
    BY <1>1, <1>4 DEF FollowsText, Phases
<1>7. arch = "x86_64" => OnX86_64'
    <2> SUFFICES ASSUME arch = "x86_64"
                 PROVE  OnX86_64'
        OBVIOUS
    <2>1. pc # -1 => mem'[Base - 2] = mem[Base - 2] /\ mem'[Base - 1] = mem[Base - 1]
        <3> SUFFICES ASSUME pc # -1
                     PROVE  mem'[Base - 2] = mem[Base - 2] /\ mem'[Base - 1] = mem[Base - 1]
            OBVIOUS
        <3>1. /\ reg["rsp"] = Base - 2 /\ Base - 1 \in Stack /\ Base - 2 \in Stack /\ Base \in Int
            BY X86_64Parts, StateParts
        <3> QED BY <1>3, <3>1
    <2> QED BY <1>1, <1>4, <2>1 DEF FollowsText, OnX86_64, CALLER
<1>8. arch = "i386" => OnI386'
    <2> SUFFICES ASSUME arch = "i386"
                 PROVE  OnI386'
        OBVIOUS
    <2>1. StackOfI386'
        <3>1. CASE pc = -1
            BY <1>1, <3>1 DEF StackOfI386, CALLER
        <3>2. CASE pc # -1
            BY <1>1, <1>3, <3>2, I386Parts, StackFollows
        <3> QED BY <3>1, <3>2
    <2> QED BY <1>1, <1>4, <2>1 DEF FollowsText, OnI386
<1> QED BY <1>1, <1>5, <1>6, <1>7, <1>8 DEF FollowsText

LEMMA StutterStep == FollowsText /\ UNCHANGED vars => FollowsText'
<1> SUFFICES ASSUME FollowsText, UNCHANGED vars
             PROVE  FollowsText'
    OBVIOUS
<1>1. UNCHANGED <<arch, reg, mem, pc, call, entry, kernel>>
    BY DEF vars
<1>2. /\ Base' = Base /\ Full' = Full /\ Gate' = Gate /\ Text[arch]' = Text[arch]
      /\ Asked' = Asked
    BY <1>1, SameAnswer
<1>3. TypeOK' /\ Phases'
    BY <1>1, <1>2 DEF FollowsText, TypeOK, Phases
<1>4. arch = "x86_64" => OnX86_64'
    BY <1>1, <1>2 DEF FollowsText, OnX86_64
<1>5. arch = "i386" => OnI386'
    <2>1. Saved(pc)' = Saved(pc)
        BY <1>1 DEF Saved
    <2> QED BY <1>1, <1>2, <2>1 DEF FollowsText, OnI386, StackOfI386
<1> QED BY <1>1, <1>3, <1>4, <1>5 DEF FollowsText

LEMMA EnterStep == FollowsText /\ EnterKernel => FollowsText'
<1> SUFFICES ASSUME FollowsText, EnterKernel
             PROVE  FollowsText'
    OBVIOUS
<1>1. /\ At("kernel") /\ pc' = -2 /\ UNCHANGED <<arch, reg, mem, call, entry>>
      /\ kernel' = [nr |-> reg["rax"], args |-> [i \in 1 .. 6 |-> reg[KernelArgs[arch][i]]],
                    result |-> 0]
    BY DEF EnterKernel, KERNEL
<1>2. /\ pc = Gate /\ pc \in DOMAIN Text[arch]
      /\ (arch = "x86_64" /\ pc = 3) \/ (arch = "i386" /\ pc = 12)
    BY <1>1, GateParts
<1>3. Base' = Base /\ Full' = Full /\ Gate' = Gate /\ Gate \in {3, 12}
    BY <1>1, SameCall, GateParts
<1>4. /\ reg["rax"] = call.nr
      /\ \A i \in 1 .. 6 : reg[KernelArgs[arch][i]] = Full[i]
    <2>1. CASE arch = "x86_64" /\ pc = 3
        <3>1. /\ reg["rax"] = call.nr /\ reg["r10"] = Full[4]
              /\ \A i \in 1 .. 6 : reg[CArgs[i]] = Full[i]
            BY <2>1 DEF FollowsText, OnX86_64
        <3>2. ASSUME NEW i \in 1 .. 6
              PROVE  reg[KernelArgs[arch][i]] = Full[i]
            <4>1. i = 4 \/ i \in {1, 2, 3, 5, 6}
                OBVIOUS
            <4>2. i \in {1, 2, 3, 5, 6} => KernelArgs[arch][i] = CArgs[i]
                BY <2>1, KernelArgsParts, CArgsParts
            <4>3. i = 4 => KernelArgs[arch][i] = "r10"
                BY <2>1, KernelArgsParts
            <4> QED BY <3>1, <4>1, <4>2, <4>3
        <3> QED BY <3>1, <3>2
    <2>2. CASE arch = "i386" /\ pc = 12
        <3>1. /\ reg["rax"] = call.nr
              /\ \A i \in 1 .. 6 : i <= 12 - 5 => reg[KernelArgs["i386"][i]] = Full[i]
            BY <2>2 DEF FollowsText, OnI386
        <3> QED BY <2>2, <3>1
    <2> QED BY <1>2, <2>1, <2>2
<1>5. kernel' = [nr |-> call.nr, args |-> Full, result |-> 0]
    <2>1. [i \in 1 .. 6 |-> reg[KernelArgs[arch][i]]] = Full
        BY <1>4, StateParts
    <2> QED BY <1>1, <1>4, <2>1
<1>6. kernel'.nr = call.nr /\ kernel'.result = 0 /\ call.nr # -1
    <2>1. call.nr \in Int /\ 0 <= call.nr
        BY StateParts, PaddedType
    <2> QED BY <1>5, <2>1
<1>7. Phases'
    <2>1. Base \in Top
        BY StateParts
    <2> QED BY <1>1, <1>3, <1>5, <1>6, <2>1 DEF Phases, Asked, CALLER, KERNEL
<1>8. TypeOK'
    <2>1. /\ reg \in [Register -> Int] /\ mem \in [Stack -> Int]
          /\ kernel'.result \in Result \cup {0}
          /\ pc' \in DOMAIN Text[arch] \cup {-1, -2}
        BY <1>1, <1>6, StateParts
    <2>2. reg["rsp"] = Base - 2 \/ reg["rsp"] = Base - 12
        <3>1. CASE arch = "x86_64"
            BY <1>2, <3>1, X86_64Parts
        <3>2. CASE arch = "i386" /\ pc = 12
            <4>1. Saved(pc) = 4 /\ reg["rsp"] = Base - 8 - Saved(pc) /\ Base \in Int
                BY <3>2, I386Parts, Depths, StateParts
            <4> QED BY <4>1
        <3> QED BY <1>2, <3>1, <3>2
    <2>3. 2 \in 0 .. 12 /\ 12 \in 0 .. 12
        OBVIOUS
    <2>4. CASE reg["rsp"] = Base - 2
        BY <1>1, <2>1, <2>3, <2>4, TypeFollows
    <2>5. CASE reg["rsp"] = Base - 12
        BY <1>1, <2>1, <2>3, <2>5, TypeFollows
    <2> QED BY <2>2, <2>4, <2>5
<1>9. arch = "x86_64" => OnX86_64'
    BY <1>1, <1>2, <1>3, X86_64Parts DEF OnX86_64, CALLER
<1>10. arch = "i386" => OnI386'
    <2> SUFFICES ASSUME arch = "i386"
                 PROVE  OnI386'
        OBVIOUS
    <2>1. pc = 12 /\ Saved(pc) = 4 /\ Saved(pc') = 4 /\ reg["rsp"] = Base - 8 - Saved(pc)
        BY <1>1, <1>2, Depths, I386Parts
    <2>2. reg'["rsp"] = Base - 8 - Saved(pc')
        BY <1>1, <2>1
    <2>3. StackOfI386'
        BY <1>1, <2>1, <2>2, StackFollows
    <2> QED BY <1>1, <2>3 DEF OnI386, CALLER
<1> QED BY <1>1, <1>7, <1>8, <1>9, <1>10 DEF FollowsText

LEMMA ReturnStep == FollowsText /\ KernelReturns => FollowsText'
<1> SUFFICES ASSUME FollowsText, KernelReturns
             PROVE  FollowsText'
    OBVIOUS
<1>1. /\ pc = -2 /\ UNCHANGED <<arch, mem, call, entry>>
    BY DEF KernelReturns, KERNEL
<1>2. PICK v \in Result :
         /\ kernel' = [kernel EXCEPT !.result = v]
         /\ reg' = IF arch = "x86_64"
                   THEN [reg EXCEPT !["rax"] = v, !["rcx"] = Scrap, !["r11"] = Scrap]
                   ELSE [reg EXCEPT !["rax"] = v]
    BY DEF KernelReturns
<1>3. /\ pc' = Gate + 1 /\ pc' \in DOMAIN Text[arch]
      /\ (arch = "x86_64" /\ pc' = 4) \/ (arch = "i386" /\ pc' = 13)
    <2>1. pc' = (CHOOSE i \in DOMAIN Text[arch] : Text[arch][i].op = "kernel") + 1
        BY DEF KernelReturns
    <2>2. (CHOOSE i \in DOMAIN Text[arch] : Text[arch][i].op = "kernel") = Gate
        BY GateParts
    <2>3. /\ Gate + 1 \in DOMAIN Text[arch]
          /\ (arch = "x86_64" /\ Gate = 3) \/ (arch = "i386" /\ Gate = 12)
        BY GateParts
    <2>4. pc' = Gate + 1
        BY <2>1, <2>2
    <2> QED BY <2>3, <2>4
<1>4. Base' = Base /\ Full' = Full /\ Gate' = Gate /\ Gate \in {3, 12}
    BY <1>1, SameCall, GateParts
<1>5. kernel' = [nr |-> call.nr, args |-> Full, result |-> v]
    <2>1. kernel = [nr |-> call.nr, args |-> Full, result |-> kernel.result]
        BY <1>1 DEF FollowsText, Phases, KERNEL
    <2> QED BY <1>2, <2>1
<1>6. /\ kernel'.nr = call.nr /\ kernel'.result = v /\ call.nr # -1
    <2>1. call.nr \in Int /\ 0 <= call.nr
        BY StateParts, PaddedType
    <2> QED BY <1>5, <2>1
<1>7. /\ reg' \in [Register -> Int] /\ reg'["rax"] = v
      /\ \A r \in Register \ {"rax", "rcx", "r11"} : reg'[r] = reg[r]
    <2>1. /\ reg \in [Register -> Int] /\ v \in Int /\ Scrap \in Int
        BY StateParts, MachineAssumption
    <2> QED BY <1>2, <2>1, RegisterNames
<1>8. Phases'
    <2>1. Base \in Top
        BY StateParts
    <2> QED BY <1>1, <1>3, <1>4, <1>5, <1>6, <1>7, <2>1 DEF Phases, Asked, CALLER, KERNEL
<1>9. reg'["rsp"] = reg["rsp"] /\ reg'["rbx"] = reg["rbx"] /\ reg'["rbp"] = reg["rbp"]
    BY <1>7, RegisterNames
<1>10. mem' \in [Stack -> Int] /\ kernel'.result \in Result \cup {0}
    BY <1>1, <1>6, StateParts
<1>11. CASE arch = "x86_64"
    <2>1. reg'["rsp"] = Base - 2 /\ 2 \in 0 .. 12
        BY <1>1, <1>9, <1>11, X86_64Parts
    <2>2. TypeOK'
        BY <1>1, <1>3, <1>7, <1>10, <2>1, TypeFollows
    <2>3. OnX86_64'
        BY <1>1, <1>3, <1>4, <1>9, <1>11, X86_64Parts DEF OnX86_64, CALLER
    <2> QED BY <1>1, <1>8, <1>11, <2>2, <2>3 DEF FollowsText
<1>12. CASE arch = "i386"
    <2>1. Saved(pc) = 4 /\ Saved(pc') = 4 /\ reg'["rsp"] = Base - 8 - Saved(pc') /\ pc' = 13
        BY <1>1, <1>3, <1>9, <1>12, I386Parts, Depths
    <2>2. reg'["rsp"] = Base - 12 /\ 12 \in 0 .. 12
        BY <2>1, StateParts
    <2>3. TypeOK'
        BY <1>1, <1>3, <1>7, <1>10, <2>2, TypeFollows
    <2>4. StackOfI386'
        BY <1>1, <1>12, <2>1, StackFollows
    <2>5. OnI386'
        BY <2>1, <2>4 DEF OnI386, CALLER
    <2> QED BY <1>1, <1>8, <1>12, <2>3, <2>5 DEF FollowsText
<1> QED BY <1>11, <1>12, StateParts

\* What a step of the text does, whichever it is.
LEMMA ExecuteParts ==
    ASSUME Execute
    PROVE  /\ UNCHANGED <<arch, call, entry, kernel>> /\ pc \in DOMAIN Text[arch]
           /\ At("push") \/ At("pop") \/ At("load") \/ At("mov") \/ At("ret")
           /\ DoPush => At("push")
           /\ DoPop => At("pop")
           /\ DoLoad => At("load")
           /\ DoMov => At("mov")
           /\ DoRet => At("ret")
BY DEF Execute, DoPush, DoPop, DoLoad, DoMov, DoRet, At

LEMMA StepOnX86_64 == FollowsText /\ arch = "x86_64" /\ Execute => FollowsText'
<1> SUFFICES ASSUME FollowsText, arch = "x86_64", Execute
             PROVE  FollowsText'
    OBVIOUS
<1>1. /\ UNCHANGED <<arch, call, entry, kernel>> /\ pc \in DOMAIN Text[arch]
      /\ pc \in 1 .. 4 /\ pc # -1
    BY ExecuteParts, TextOfX86_64
<1>2. /\ pc \in Int /\ reg["rsp"] = Base - 2 /\ mem[Base - 2] = -1
      /\ reg["rbx"] = entry["rbx"] /\ reg["rbp"] = entry["rbp"] /\ Gate = 3
    BY <1>1, X86_64Parts DEF Gate
<1>3. /\ reg \in [Register -> Int] /\ mem \in [Stack -> Int] /\ Base \in Int
      /\ kernel'.result \in Result \cup {0} /\ Base - 1 \in Stack
    BY <1>1, StateParts
<1>4. /\ Base' = Base /\ Full' = Full /\ Gate' = Gate /\ Asked' = Asked /\ kernel' = kernel
    BY <1>1, SameAnswer
<1>5. DOMAIN Text[arch] = 1 .. 4
    BY TextOfX86_64
<1>6. CASE DoLoad
    <2>1. pc = 1 /\ A = "rax" /\ B = 8
        BY <1>1, <1>6, ExecuteParts, PlacesOfX86_64
    <2> DEFINE w == mem[Base - 1]
    <2>2. w \in Int /\ w % Half = call.nr /\ call.nr \in Int
        <3>1. w \in Int
            BY <1>3
        <3>2. w % Half = call.nr
            BY <2>1 DEF FollowsText, OnX86_64
        <3>3. call.nr \in Int
            BY StateParts, PaddedType
        <3> QED BY <3>1, <3>2, <3>3
    <2>3. reg["rsp"] + 8 \div 8 = Base - 1 /\ WordSize["x86_64"] = 8
        BY <1>2, <1>3 DEF WordSize
    <2>4. reg' = [reg EXCEPT !["rax"] = w % Half] /\ pc' = 2 /\ mem' = mem
        <3>1. reg' = [reg EXCEPT ![A] = LET v == mem[reg["rsp"] + B \div WordSize[arch]]
                                        IN  IF arch = "x86_64" THEN v % Half ELSE v]
            BY <1>6 DEF DoLoad
        <3>2. mem[reg["rsp"] + B \div WordSize[arch]] = w
            BY <2>1, <2>3
        <3>3. pc' = 2 /\ mem' = mem
            BY <1>6, <2>1 DEF DoLoad
        <3> QED BY <2>1, <3>1, <3>2, <3>3
    <2> HIDE DEF w
    <2>5. reg' \in [Register -> Int] /\ reg'["rax"] = call.nr
          /\ \A r \in Register \ {"rax"} : reg'[r] = reg[r]
        BY <1>3, <2>2, <2>4, RegisterNames
    <2>6. reg'["rsp"] = Base - 2 /\ reg'["rbx"] = reg["rbx"] /\ reg'["rbp"] = reg["rbp"]
        BY <1>2, <2>5, RegisterNames
    <2>7. TypeOK'
        <3>1. pc' \in DOMAIN Text[arch] \cup {-1, -2} /\ 2 \in 0 .. 12
            BY <1>5, <2>4
        <3> QED BY <1>1, <1>3, <2>4, <2>5, <2>6, <3>1, TypeFollows
    <2>8. Phases'
        BY <1>1, <1>2, <2>1, <2>4, PhasesFollow
    <2>9. \A i \in 1 .. 6 : reg'[CArgs[i]] = Full[i]
        <3>1. \A i \in 1 .. 6 : reg[CArgs[i]] = Full[i]
            BY <2>1 DEF FollowsText, OnX86_64
        <3> QED BY <2>5, <3>1, RegisterNames
    <2>10. OnX86_64'
        BY <1>1, <1>2, <1>4, <2>4, <2>5, <2>6, <2>9 DEF OnX86_64, CALLER
    <2> QED BY <1>1, <2>7, <2>8, <2>10 DEF FollowsText
<1>7. CASE DoMov
    <2>1. pc = 2 /\ A = "r10" /\ B = "rcx"
        BY <1>1, <1>7, ExecuteParts, PlacesOfX86_64
    <2>2. reg' = [reg EXCEPT !["r10"] = reg["rcx"]] /\ pc' = 3 /\ mem' = mem
        BY <1>7, <2>1 DEF DoMov
    <2>3. reg' \in [Register -> Int] /\ reg'["r10"] = reg["rcx"]
          /\ \A r \in Register \ {"r10"} : reg'[r] = reg[r]
        BY <1>3, <2>2, RegisterNames
    <2>4. /\ reg'["rsp"] = Base - 2 /\ reg'["rbx"] = reg["rbx"] /\ reg'["rbp"] = reg["rbp"]
          /\ reg'["rax"] = reg["rax"]
        BY <1>2, <2>3, RegisterNames
    <2>5. TypeOK'
        <3>1. pc' \in DOMAIN Text[arch] \cup {-1, -2} /\ 2 \in 0 .. 12
            BY <1>5, <2>2
        <3> QED BY <1>1, <1>3, <2>2, <2>3, <2>4, <3>1, TypeFollows
    <2>6. Phases'
        BY <1>1, <1>2, <2>1, <2>2, PhasesFollow
    <2>7. (\A i \in 1 .. 6 : reg[CArgs[i]] = Full[i]) /\ reg["rax"] = call.nr
        BY <2>1 DEF FollowsText, OnX86_64
    <2>8. \A i \in 1 .. 6 : reg'[CArgs[i]] = Full[i]
        BY <2>3, <2>7, RegisterNames
    <2>9. reg'["r10"] = Full[4]
        <3>1. CArgs[4] = "rcx" /\ 4 \in 1 .. 6
            BY CArgsParts
        <3> QED BY <2>3, <2>7, <3>1
    <2>10. OnX86_64'
        BY <1>1, <1>2, <1>4, <2>2, <2>4, <2>7, <2>8, <2>9 DEF OnX86_64, CALLER
    <2> QED BY <1>1, <2>5, <2>6, <2>10 DEF FollowsText
<1>8. CASE DoRet
    <2>1. pc = 4
        BY <1>1, <1>8, ExecuteParts, PlacesOfX86_64
    <2>2. reg' = [reg EXCEPT !["rsp"] = reg["rsp"] + 1] /\ pc' = -1 /\ mem' = mem
        BY <1>2, <1>8 DEF DoRet
    <2>3. reg["rsp"] + 1 = Base - 1
        BY <1>2, <1>3
    <2>4. reg' \in [Register -> Int] /\ reg'["rsp"] = Base - 1
          /\ \A r \in Register \ {"rsp"} : reg'[r] = reg[r]
        BY <1>3, <2>2, <2>3, RegisterNames
    <2>5. /\ reg'["rbx"] = reg["rbx"] /\ reg'["rbp"] = reg["rbp"] /\ reg'["rax"] = reg["rax"]
        BY <2>4, RegisterNames
    <2>6. TypeOK'
        <3>1. pc' \in DOMAIN Text[arch] \cup {-1, -2} /\ 1 \in 0 .. 12
            BY <2>2
        <3>2. mem' \in [Stack -> Int]
            BY <1>3, <2>2
        <3> QED BY <1>1, <1>3, <2>4, <3>1, <3>2, TypeFollows
    <2>7. Phases'
        BY <1>1, <1>2, <2>1, <2>2, <2>5, PhasesFollow
    <2>8. OnX86_64'
        BY <1>1, <1>2, <1>4, <2>2, <2>4, <2>5 DEF OnX86_64, CALLER
    <2> QED BY <1>1, <2>6, <2>7, <2>8 DEF FollowsText
<1>9. ~DoPush /\ ~DoPop
    BY <1>1, ExecuteParts, PlacesOfX86_64
<1> QED BY <1>6, <1>7, <1>8, <1>9 DEF Execute

LEMMA StateOnI386 ==
    ASSUME FollowsText, arch = "i386", Execute
    PROVE  /\ UNCHANGED <<arch, call, entry, kernel>>
           /\ pc \in 1 .. 17 /\ pc \in Int /\ pc # -1 /\ pc \in DOMAIN Text[arch]
           /\ DOMAIN Text[arch] = 1 .. 17 /\ Gate = 12
           /\ Saved(pc) \in 0 .. 4 /\ reg["rsp"] = Base - 8 - Saved(pc)
           /\ reg \in [Register -> Int] /\ entry \in [Register -> Int] /\ mem \in [Stack -> Int]
           /\ Base \in Int /\ kernel'.result \in Result \cup {0}
           /\ Base' = Base /\ Full' = Full /\ Asked' = Asked
           /\ \A d \in 0 .. 12 : Base - d \in Stack /\ Base - d \in Int
<1>1. UNCHANGED <<arch, call, entry, kernel>> /\ pc \in DOMAIN Text[arch]
    BY ExecuteParts
<1>2. pc \in 1 .. 17 /\ pc \in Int /\ pc # -1 /\ DOMAIN Text[arch] = 1 .. 17 /\ Gate = 12
    BY <1>1, TextOfI386 DEF Gate
<1>3. Saved(pc) \in 0 .. 4 /\ reg["rsp"] = Base - 8 - Saved(pc)
    BY <1>2, I386Parts
<1>4. /\ reg \in [Register -> Int] /\ entry \in [Register -> Int] /\ mem \in [Stack -> Int]
      /\ Base \in Int /\ kernel'.result \in Result \cup {0}
      /\ \A d \in 0 .. 12 : Base - d \in Stack /\ Base - d \in Int
    BY <1>1, StateParts
<1>5. Base' = Base /\ Full' = Full /\ Asked' = Asked
    BY <1>1, SameAnswer
<1> QED BY <1>1, <1>2, <1>3, <1>4, <1>5

\* The four pushes put each kept register in the word below the ones before it.
LEMMA PushStep == FollowsText /\ arch = "i386" /\ Execute /\ DoPush => FollowsText'
<1> SUFFICES ASSUME FollowsText, arch = "i386", Execute, DoPush
             PROVE  FollowsText'
    OBVIOUS
<1>1. pc \in 1 .. 4 /\ A = Saves[pc].a
    BY StateOnI386, ExecuteParts, PlacesOfI386
<1>2. /\ reg["rsp"] = Base - 8 - (pc - 1) /\ Saved(pc) = pc - 1 /\ Saved(pc + 1) = pc
      /\ pc + 1 \in 2 .. 5
    <2>1. Saved(pc) = pc - 1 /\ reg["rsp"] = Base - 8 - Saved(pc)
        BY <1>1, Depths, StateOnI386
    <2>2. Saved(pc + 1) = pc
        <3>1. pc + 1 \in 1 .. 4 \/ (pc + 1 = 5 /\ pc = 4)
            BY <1>1
        <3>2. CASE pc + 1 \in 1 .. 4
            <4>1. Saved(pc + 1) = (pc + 1) - 1
                BY <3>2, Depths
            <4> QED BY <1>1, <4>1
        <3>3. CASE pc + 1 = 5 /\ pc = 4
            <4>1. 5 \in 5 .. 12 /\ Saved(5) = 4
                BY Depths
            <4> QED BY <3>3, <4>1
        <3> QED BY <3>1, <3>2, <3>3
    <2> QED BY <1>1, <2>1, <2>2
<1>3. /\ reg["rsp"] - 1 = Base - 8 - pc /\ 8 + pc \in 0 .. 12 /\ Base - (8 + pc) = Base - 8 - pc
      /\ Base - 8 - pc \in Stack
    <2>1. reg["rsp"] - 1 = Base - 8 - pc /\ 8 + pc \in 0 .. 12 /\ Base - (8 + pc) = Base - 8 - pc
        BY <1>1, <1>2, StateOnI386
    <2>2. Base - (8 + pc) \in Stack
        BY <2>1, StateOnI386
    <2> QED BY <2>1, <2>2
<1> DEFINE low == Base - 8 - pc
           r0 == Saves[pc].a
<1>4. /\ mem' = [mem EXCEPT ![low] = reg[r0]] /\ reg' = [reg EXCEPT !["rsp"] = low]
      /\ pc' = pc + 1
    BY <1>1, <1>3 DEF DoPush
<1>5. r0 \in Register /\ reg[r0] = entry[r0] /\ reg[r0] \in Int /\ low \in Int
    <2>1. r0 \in Register
        BY <1>1, RegisterNames
    <2>2. reg[r0] = entry[r0]
        BY <1>1 DEF FollowsText, OnI386
    <2> QED BY <1>1, <2>1, <2>2, StateOnI386
<1> HIDE DEF low, r0
<1>6. /\ mem' \in [Stack -> Int] /\ mem'[low] = entry[r0]
      /\ \A x \in Stack : x # low => mem'[x] = mem[x]
    <2>1. low \in Stack
        BY <1>3 DEF low
    <2> QED BY <1>4, <1>5, <2>1, StateOnI386
<1>7. /\ reg' \in [Register -> Int] /\ reg'["rsp"] = low
      /\ \A r \in Register \ {"rsp"} : reg'[r] = reg[r]
    BY <1>4, <1>5, StateOnI386, RegisterNames
<1>8. TypeOK'
    <2> DEFINE d == 8 + pc
    <2>1. pc' \in DOMAIN Text[arch] \cup {-1, -2} /\ d \in 0 .. 12 /\ reg'["rsp"] = Base - d
        BY <1>2, <1>3, <1>4, <1>7, StateOnI386 DEF low
    <2> HIDE DEF d
    <2> QED BY <1>6, <1>7, <2>1, StateOnI386, TypeFollows
<1>9. Phases'
    BY <1>1, <1>4, StateOnI386, PhasesFollow
<1>10. StackOfI386'
    <2>1. /\ \A i \in 1 .. 6 : mem[Base - 8 + i] = Full[i]
          /\ mem[Base - 1] = call.nr /\ mem[Base - 8] = -1
          /\ \A i \in 1 .. Saved(pc) : mem[Base - 8 - i] = entry[Saves[i].a]
        BY StateOnI386 DEF FollowsText, OnI386, StackOfI386, CALLER
    <2>2. ASSUME NEW i \in 1 .. 6
          PROVE  mem'[Base - 8 + i] = Full[i]
        <3>1. 8 - i \in 0 .. 12 /\ Base - (8 - i) = Base - 8 + i /\ Base - 8 + i # low
            BY <1>1, StateOnI386 DEF low
        <3>2. Base - (8 - i) \in Stack
            BY <3>1, StateOnI386
        <3> QED BY <1>6, <2>1, <3>1, <3>2
    <2>3. mem'[Base - 1] = call.nr /\ mem'[Base - 8] = -1
        <3>1. Base - 1 \in Stack /\ Base - 8 \in Stack
            BY StateOnI386
        <3>2. Base - 1 # low /\ Base - 8 # low
            BY <1>1, StateOnI386 DEF low
        <3> QED BY <1>6, <2>1, <3>1, <3>2
    <2>4. ASSUME NEW i \in 1 .. pc
          PROVE  mem'[Base - 8 - i] = entry[Saves[i].a]
        <3>1. CASE i = pc
            BY <1>6, <3>1 DEF low, r0
        <3>2. CASE i # pc
            <4>1. /\ i \in 1 .. Saved(pc) /\ 8 + i \in 0 .. 12 /\ Base - (8 + i) = Base - 8 - i
                  /\ Base - 8 - i # low
                BY <1>1, <1>2, <3>2, StateOnI386 DEF low
            <4>2. Base - (8 + i) \in Stack
                BY <4>1, StateOnI386
            <4> QED BY <1>6, <2>1, <4>1, <4>2
        <3> QED BY <3>1, <3>2
    <2>5. Saved(pc') = pc /\ reg'["rsp"] = Base - 8 - Saved(pc')
        BY <1>2, <1>4, <1>7 DEF low
    <2> QED BY <2>2, <2>3, <2>4, <2>5, StateOnI386 DEF StackOfI386, CALLER
<1>11. OnI386'
    <2>1. \A i \in 1 .. 4 : reg[Saves[i].a] = entry[Saves[i].a]
        BY <1>1 DEF FollowsText, OnI386
    <2>2. \A i \in 1 .. 4 : reg'[Saves[i].a] = entry[Saves[i].a]
        BY <1>7, <2>1, RegisterNames
    <2>3. /\ \A i \in 1 .. 6 : ~(i <= pc' - 5)
          /\ pc' # 12 /\ ~(pc' \in 13 .. 17) /\ pc' # -1
        BY <1>2, <1>4
    <2>4. entry' = entry
        BY StateOnI386
    <2> QED BY <1>10, <2>2, <2>3, <2>4 DEF OnI386, CALLER
<1> QED BY <1>8, <1>9, <1>11, StateOnI386 DEF FollowsText

\* The steps that take nothing off the stack and put nothing on it.
LEMMA StackStays ==
    ASSUME FollowsText, arch = "i386", Execute, mem' = mem, reg'["rsp"] = reg["rsp"],
           reg' \in [Register -> Int], pc \in 5 .. 11, pc' = pc + 1
    PROVE  TypeOK' /\ Phases' /\ StackOfI386'
<1>1. Saved(pc) = 4 /\ Saved(pc') = 4 /\ pc' \in 6 .. 12 /\ pc < Gate
    <2>1. pc' \in 6 .. 12 /\ pc' \in 5 .. 12 /\ pc \in 5 .. 12 /\ pc < 12
        OBVIOUS
    <2> QED BY <2>1, Depths, StateOnI386
<1>2. /\ reg'["rsp"] = Base - 12 /\ 12 \in 0 .. 12 /\ reg["rsp"] = Base - 8 - Saved(pc)
      /\ Base \in Int
    BY <1>1, StateOnI386
<1>3. TypeOK'
    <2>1. pc' \in DOMAIN Text[arch] \cup {-1, -2} /\ mem' \in [Stack -> Int]
        BY <1>1, StateOnI386
    <2> QED BY <1>2, <2>1, StateOnI386, TypeFollows
<1>4. Phases'
    BY <1>1, StateOnI386, PhasesFollow
<1>5. StackOfI386'
    <2>1. pc' # -1 /\ reg'["rsp"] = Base - 8 - Saved(pc')
        BY <1>1, <1>2
    <2> QED BY <1>1, <2>1, StateOnI386, StackFollows
<1> QED BY <1>3, <1>4, <1>5

\* Each load brings one argument, and the last the number, into the kernel's register.
LEMMA LoadStep == FollowsText /\ arch = "i386" /\ Execute /\ DoLoad => FollowsText'
<1> SUFFICES ASSUME FollowsText, arch = "i386", Execute, DoLoad
             PROVE  FollowsText'
    OBVIOUS
<1>1. /\ UNCHANGED <<arch, call, entry, kernel>> /\ Base' = Base /\ Full' = Full
      /\ Base \in Int /\ reg["rsp"] = Base - 8 - Saved(pc) /\ reg \in [Register -> Int]
    BY StateOnI386
<1>2. \/ pc \in 5 .. 10 /\ A = KernelArgs["i386"][pc - 4] /\ B = 16 + 4 * (pc - 4)
      \/ pc = 11 /\ A = "rax" /\ B = 44
    BY StateOnI386, ExecuteParts, PlacesOfI386
<1>3. /\ reg' = [reg EXCEPT ![A] = mem[reg["rsp"] + B \div 4]]
      /\ mem' = mem /\ pc' = pc + 1
    <2>1. reg' = [reg EXCEPT ![A] = LET w == mem[reg["rsp"] + B \div WordSize[arch]]
                                    IN  IF arch = "x86_64" THEN w % Half ELSE w]
        BY DEF DoLoad
    <2>2. WordSize[arch] = 4
        BY DEF WordSize
    <2>3. mem' = mem /\ pc' = pc + 1
        BY DEF DoLoad
    <2> QED BY <2>1, <2>2, <2>3
<1>4. /\ \A i \in 1 .. 6 : mem[Base - 8 + i] = Full[i] /\ Full[i] \in Int
      /\ mem[Base - 1] = call.nr /\ call.nr \in Int
    <2>1. /\ \A i \in 1 .. 6 : mem[Base - 8 + i] = Full[i]
          /\ mem[Base - 1] = call.nr
        BY StateOnI386 DEF FollowsText, OnI386, StackOfI386, CALLER
    <2>2. (\A i \in 1 .. 6 : Full[i] \in Int) /\ call.nr \in Int
        BY StateParts, PaddedType
    <2> QED BY <2>1, <2>2
<1>5. \A i \in 1 .. 6 : i <= pc - 5 => reg[KernelArgs["i386"][i]] = Full[i]
    <2>1. pc \in 5 .. 12
        BY <1>2
    <2> QED BY <2>1 DEF FollowsText, OnI386
<1>6. CASE pc \in 5 .. 10
    <2> DEFINE n == pc - 4
    <2>1. A = KernelArgs["i386"][n] /\ B = 16 + 4 * n
        BY <1>2, <1>6
    <2>2. n \in 1 .. 6 /\ pc - 5 = n - 1 /\ pc' - 5 = n
        BY <1>3, <1>6
    <2>3. Saved(pc) = 4
        BY <1>6, Depths
    <2> HIDE DEF n
    <2>4. reg["rsp"] + B \div 4 = Base - 8 + n
        <3>1. B \div 4 = 4 + n
            BY <2>1, <2>2
        <3> QED BY <1>1, <2>2, <2>3, <3>1
    <2> DEFINE x == KernelArgs["i386"][n]
    <2>5. reg' = [reg EXCEPT ![x] = Full[n]]
        BY <1>3, <1>4, <2>1, <2>2, <2>4
    <2>6. x \in Register \ {"rax", "rsp"} /\ Full[n] \in Int
        BY <1>4, <2>2, RegisterNames
    <2> HIDE DEF x
    <2>7. /\ reg' \in [Register -> Int] /\ reg'[x] = Full[n]
          /\ \A r \in Register \ {x} : reg'[r] = reg[r]
        BY <1>1, <2>5, <2>6
    <2>8. reg'["rsp"] = reg["rsp"]
        BY <2>6, <2>7, RegisterNames
    <2>9. TypeOK' /\ Phases' /\ StackOfI386'
        <3>1. pc \in 5 .. 11
            BY <1>6
        <3> QED BY <1>3, <2>7, <2>8, <3>1, StackStays
    <2>10. ASSUME NEW i \in 1 .. 6, i <= n
           PROVE  reg'[KernelArgs["i386"][i]] = Full[i]
        <3>1. CASE i = n
            BY <2>7, <3>1 DEF x
        <3>2. CASE i # n
            <4>1. KernelArgs["i386"][i] \in Register /\ KernelArgs["i386"][i] # x
                BY <2>2, <3>2, RegisterNames, Distinct DEF x
            <4>2. i <= pc - 5
                BY <2>2, <2>10, <3>2
            <4> QED BY <1>5, <2>7, <4>1, <4>2
        <3> QED BY <3>1, <3>2
    <2>11. pc' \in 6 .. 11 /\ pc' - 5 = n
        BY <1>3, <1>6, <2>2
    <2>12. OnI386'
        <3>1. ~(pc' \in 1 .. 5) /\ pc' # 12 /\ ~(pc' \in 13 .. 17) /\ pc' # -1
            BY <2>11
        <3> QED BY <1>1, <2>9, <2>10, <2>11, <3>1 DEF OnI386, CALLER
    <2> QED BY <1>1, <2>9, <2>12 DEF FollowsText
<1>7. CASE pc = 11
    <2>1. A = "rax" /\ B = 44
        BY <1>2, <1>7
    <2>2. Saved(pc) = 4
        BY <1>7, Depths
    <2>3. reg["rsp"] + B \div 4 = Base - 1
        <3>1. B \div 4 = 11
            BY <2>1
        <3> QED BY <1>1, <2>2, <3>1
    <2>4. reg' = [reg EXCEPT !["rax"] = call.nr]
        BY <1>3, <1>4, <2>1, <2>3
    <2>5. /\ reg' \in [Register -> Int] /\ reg'["rax"] = call.nr
          /\ \A r \in Register \ {"rax"} : reg'[r] = reg[r]
        BY <1>1, <1>4, <2>4, RegisterNames
    <2>6. reg'["rsp"] = reg["rsp"] /\ pc' = 12
        BY <1>3, <1>7, <2>5, RegisterNames
    <2>7. TypeOK' /\ Phases' /\ StackOfI386'
        <3>1. pc \in 5 .. 11
            BY <1>7
        <3> QED BY <1>3, <2>5, <2>6, <3>1, StackStays
    <2>8. \A i \in 1 .. 6 : reg'[KernelArgs["i386"][i]] = Full[i]
        <3>1. \A i \in 1 .. 6 : reg[KernelArgs["i386"][i]] = Full[i]
            BY <1>5, <1>7
        <3> QED BY <2>5, <3>1, RegisterNames
    <2>9. OnI386'
        BY <1>1, <2>5, <2>6, <2>7, <2>8 DEF OnI386, CALLER
    <2> QED BY <1>1, <2>7, <2>9 DEF FollowsText
<1> QED BY <1>2, <1>6, <1>7

\* The four pops give the kept registers back, the one pushed last first.
LEMMA PopStep == FollowsText /\ arch = "i386" /\ Execute /\ DoPop => FollowsText'
<1> SUFFICES ASSUME FollowsText, arch = "i386", Execute, DoPop
             PROVE  FollowsText'
    OBVIOUS
<1>1. /\ UNCHANGED <<arch, call, entry, kernel>> /\ Base' = Base /\ Full' = Full
      /\ Base \in Int /\ reg["rsp"] = Base - 8 - Saved(pc) /\ reg \in [Register -> Int]
      /\ entry \in [Register -> Int]
    BY StateOnI386
<1>2. pc \in 13 .. 16 /\ A = Saves[17 - pc].a
    BY StateOnI386, ExecuteParts, PlacesOfI386
<1> DEFINE n == 17 - pc
           r0 == Saves[n].a
           high == Base - 8 - (n - 1)
<1>3. n \in 1 .. 4 /\ n = 17 - pc /\ pc + 1 \in 14 .. 17 /\ 17 - (pc + 1) = n - 1
    BY <1>2
<1>4. Saved(pc) = n /\ Saved(pc + 1) = n - 1
    <2>1. pc \in 13 .. 17 /\ pc + 1 \in 13 .. 17
        BY <1>2
    <2>2. Saved(pc) = 17 - pc /\ Saved(pc + 1) = 17 - (pc + 1)
        BY <2>1, Depths
    <2> QED BY <1>3, <2>2
<1>5. A = r0
    BY <1>2
<1> HIDE DEF n, r0
<1>6. reg["rsp"] = Base - 8 - n /\ reg["rsp"] + 1 = high /\ high \in Int
    BY <1>1, <1>3, <1>4
<1>7. mem[reg["rsp"]] = entry[r0]
    <2>1. \A i \in 1 .. Saved(pc) : mem[Base - 8 - i] = entry[Saves[i].a]
        BY StateOnI386 DEF FollowsText, OnI386, StackOfI386, CALLER
    <2>2. n \in 1 .. Saved(pc)
        BY <1>3, <1>4
    <2> QED BY <1>6, <2>1, <2>2 DEF r0
<1> HIDE DEF high
<1>8. /\ reg' = [[reg EXCEPT !["rsp"] = high] EXCEPT ![r0] = entry[r0]]
      /\ mem' = mem /\ pc' = pc + 1
    <2>1. /\ reg' = [[reg EXCEPT !["rsp"] = reg["rsp"] + 1] EXCEPT ![A] = mem[reg["rsp"]]]
          /\ mem' = mem /\ pc' = pc + 1
        BY DEF DoPop
    <2> QED BY <1>5, <1>6, <1>7, <2>1
<1>9. r0 \in Register /\ r0 # "rsp" /\ r0 # "rax"
    BY <1>3, RegisterNames DEF r0
<1>10. /\ reg' \in [Register -> Int] /\ reg'["rsp"] = high /\ reg'[r0] = entry[r0]
       /\ reg'["rax"] = reg["rax"]
       /\ \A r \in Register : r # "rsp" /\ r # r0 => reg'[r] = reg[r]
    BY <1>1, <1>6, <1>8, <1>9, RegisterNames
<1>11. TypeOK'
    <2> DEFINE d == 8 + (n - 1)
    <2>1. d \in 0 .. 12 /\ reg'["rsp"] = Base - d
        BY <1>1, <1>3, <1>10 DEF high
    <2>2. pc' \in DOMAIN Text[arch] \cup {-1, -2} /\ mem' \in [Stack -> Int]
        BY <1>3, <1>8, StateOnI386
    <2> HIDE DEF d
    <2> QED BY <1>1, <1>10, <2>1, <2>2, StateOnI386, TypeFollows
<1>12. Phases'
    <2>1. pc' = pc + 1 /\ pc # Gate /\ reg'["rax"] = reg["rax"]
        BY <1>2, <1>8, <1>10, StateOnI386
    <2> QED BY <2>1, StateOnI386, PhasesFollow
<1>13. StackOfI386'
    <2>1. /\ Saved(pc) \in 0 .. 4 /\ Saved(pc') \in 0 .. Saved(pc) /\ pc # -1 /\ pc' # -1
          /\ reg'["rsp"] = Base - 8 - Saved(pc')
        BY <1>2, <1>3, <1>4, <1>8, <1>10 DEF high
    <2>2. \A x \in Stack : x >= reg["rsp"] => mem'[x] = mem[x]
        BY <1>8
    <2> QED BY <1>1, <2>1, <2>2, StackFollows
<1>14. ASSUME NEW i \in 1 .. 4, i <= pc' - 13
       PROVE  reg'[Restores[i].a] = entry[Restores[i].a]
    <2>1. Restores[i].a = Saves[5 - i].a /\ 5 - i \in 1 .. 4
        BY RestoresParts
    <2>2. CASE 5 - i = n
        BY <1>10, <2>1, <2>2 DEF r0
    <2>3. CASE 5 - i # n
        <3>1. Saves[5 - i].a # r0 /\ Saves[5 - i].a \in Register /\ Saves[5 - i].a # "rsp"
            BY <1>3, <2>1, <2>3, Distinct, RegisterNames DEF r0
        <3>2. i <= pc - 13
            BY <1>2, <1>3, <1>8, <1>14, <2>3
        <3>3. pc \in 13 .. 17
            BY <1>2
        <3>4. reg[Restores[i].a] = entry[Restores[i].a]
            BY <3>2, <3>3 DEF FollowsText, OnI386
        <3> QED BY <1>10, <2>1, <3>1, <3>4
    <2> QED BY <2>2, <2>3
<1>15. OnI386'
    <2>1. ~(pc' \in 1 .. 5) /\ ~(pc' \in 5 .. 12) /\ pc' # 12 /\ pc' # -1
        BY <1>3, <1>8
    <2> QED BY <1>1, <1>13, <1>14, <2>1 DEF OnI386, CALLER
<1> QED BY <1>1, <1>11, <1>12, <1>15 DEF FollowsText

LEMMA RetStep == FollowsText /\ arch = "i386" /\ Execute /\ DoRet => FollowsText'
<1> SUFFICES ASSUME FollowsText, arch = "i386", Execute, DoRet
             PROVE  FollowsText'
    OBVIOUS
<1>1. /\ UNCHANGED <<arch, call, entry, kernel>> /\ Base' = Base /\ Full' = Full
      /\ Asked' = Asked /\ Base \in Int /\ reg["rsp"] = Base - 8 - Saved(pc)
      /\ reg \in [Register -> Int] /\ entry \in [Register -> Int]
    BY StateOnI386
<1>2. pc = 17
    BY StateOnI386, ExecuteParts, PlacesOfI386
<1>3. Saved(pc) = 0 /\ reg["rsp"] = Base - 8 /\ reg["rsp"] + 1 = Base - 7
    <2>1. Saved(pc) = 0
        BY <1>2, Depths
    <2> QED BY <1>1, <2>1
<1>4. mem[Base - 8] = -1
    BY StateOnI386 DEF FollowsText, OnI386, StackOfI386, CALLER
<1>5. reg' = [reg EXCEPT !["rsp"] = Base - 7] /\ pc' = -1 /\ mem' = mem
    <2>1. reg' = [reg EXCEPT !["rsp"] = reg["rsp"] + 1] /\ pc' = mem[reg["rsp"]] /\ mem' = mem
        BY DEF DoRet
    <2> QED BY <1>3, <1>4, <2>1
<1>6. /\ reg' \in [Register -> Int] /\ reg'["rsp"] = Base - 7
      /\ \A r \in Register \ {"rsp"} : reg'[r] = reg[r]
    BY <1>1, <1>5, RegisterNames
<1>7. TypeOK'
    <2>1. pc' \in DOMAIN Text[arch] \cup {-1, -2} /\ mem' \in [Stack -> Int] /\ 7 \in 0 .. 12
        BY <1>5, StateOnI386
    <2> QED BY <1>1, <1>6, <2>1, StateOnI386, TypeFollows
<1>8. Phases'
    <2>1. pc' = -1 /\ pc > Gate /\ reg'["rax"] = reg["rax"]
        BY <1>2, <1>5, <1>6, StateOnI386, RegisterNames
    <2> QED BY <2>1, StateOnI386, PhasesFollow
<1>9. ASSUME NEW i \in 1 .. 4
      PROVE  reg'[Saves[i].a] = entry[Saves[i].a]
    <2>1. 5 - i \in 1 .. 4 /\ 5 - (5 - i) = i /\ 5 - i <= pc - 13
        BY <1>2
    <2>2. Restores[5 - i].a = Saves[i].a
        BY <2>1, RestoresParts
    <2>3. reg[Restores[5 - i].a] = entry[Restores[5 - i].a]
        BY <1>2, <2>1 DEF FollowsText, OnI386
    <2>4. Saves[i].a \in Register \ {"rsp"}
        BY RegisterNames
    <2> QED BY <1>6, <2>2, <2>3, <2>4
<1>10. OnI386'
    <2>1. StackOfI386'
        BY <1>5 DEF StackOfI386, CALLER
    <2>2. ~(pc' \in 1 .. 5) /\ ~(pc' \in 5 .. 12) /\ pc' # 12 /\ ~(pc' \in 13 .. 17)
        BY <1>5
    <2> QED BY <1>1, <1>6, <1>9, <2>1, <2>2 DEF OnI386
<1> QED BY <1>1, <1>7, <1>8, <1>10 DEF FollowsText

-----------------------------------------------------------------------------
(***************************************************************************)
(* The theorems.                                                           *)
(***************************************************************************)
LEMMA ExecuteStep == FollowsText /\ Execute => FollowsText'
<1> SUFFICES ASSUME FollowsText, Execute
             PROVE  FollowsText'
    OBVIOUS
<1>1. CASE arch = "x86_64"
    BY <1>1, StepOnX86_64
<1>2. CASE arch = "i386"
    <2>1. ~DoMov
        BY <1>2, ExecuteParts, PlacesOfI386
    <2>2. DoPush \/ DoPop \/ DoLoad \/ DoRet
        BY <2>1 DEF Execute
    <2> QED BY <1>2, <2>2, PushStep, LoadStep, PopStep, RetStep
<1> QED BY <1>1, <1>2, StateParts

LEMMA StepFollows == FollowsText /\ [Next]_vars => FollowsText'
<1> SUFFICES ASSUME FollowsText, [Next]_vars
             PROVE  FollowsText'
    OBVIOUS
<1>1. CASE CallLinuxSyscall
    BY <1>1, CallStep
<1>2. CASE Execute
    BY <1>2, ExecuteStep
<1>3. CASE EnterKernel
    BY <1>3, EnterStep
<1>4. CASE KernelReturns
    BY <1>4, ReturnStep
<1>5. CASE Signal
    BY <1>5, SignalStep
<1>6. CASE UNCHANGED vars
    BY <1>6, StutterStep
<1> QED BY <1>1, <1>2, <1>3, <1>4, <1>5, <1>6 DEF Next

LEMMA AlwaysFollows == Spec => []FollowsText
<1>1. Init => FollowsText
    BY InitFollows
<1>2. FollowsText /\ [Next]_vars => FollowsText'
    BY StepFollows
<1> QED BY <1>1, <1>2, PTL DEF Spec

\* linux_syscall (linux-syscall.S) keeps its stack pointer within the stack and control within
\* its text, and returns to its caller and nowhere else, with a handler on the stack below at
\* any instruction.
THEOREM SyscallTypeOK == Spec => []TypeOK
<1>1. FollowsText => TypeOK
    BY DEF FollowsText
<1> QED BY <1>1, AlwaysFollows, PTL

\* The LINUX_SYSCALL macros (common/base.h) and linux_syscall (linux-syscall.S) ask Linux for
\* the call that was written in C: its number, whatever the upper half of the number's stack
\* slot holds, the arguments in Linux's registers, and 0 for each that was not given.
THEOREM SyscallAsksForCall == Spec => []KernelAskedForCall
<1>1. FollowsText => KernelAskedForCall
    BY DEF FollowsText, Phases, KernelAskedForCall, Full
<1> QED BY <1>1, AlwaysFollows, PTL

\* The caller of linux_syscall gets Linux's answer to this call, its stack pointer back, and
\* every register the C calling convention keeps for it, although i386's linux_syscall hands
\* all four of them to Linux with arguments in them (linux-syscall.S).
THEOREM SyscallResumesCaller == Spec => []CallerResumes
<1>1. FollowsText => CallerResumes
    <2> SUFFICES ASSUME FollowsText, pc = CALLER, Asked
                 PROVE  /\ reg["rax"] = kernel.result
                        /\ \A r \in CalleeSaved(arch) \ {"rsp"} : reg[r] = entry[r]
                        /\ reg["rsp"] = entry["rsp"] - (IF arch = "x86_64" THEN 1 ELSE 7)
        BY DEF CallerResumes
    <2>1. reg["rax"] = kernel.result
        BY DEF FollowsText, Phases, CALLER, KERNEL
    <2>2. CASE arch = "x86_64"
        <3>1. /\ reg["rbx"] = entry["rbx"] /\ reg["rbp"] = entry["rbp"]
              /\ reg["rsp"] = Base - 1
            BY <2>2 DEF FollowsText, OnX86_64
        <3> QED BY <2>1, <2>2, <3>1 DEF CalleeSaved, Base
    <2>3. CASE arch = "i386"
        <3>1. reg["rsp"] = Base - 7 /\ \A i \in 1 .. 4 : reg[Saves[i].a] = entry[Saves[i].a]
            BY <2>3 DEF FollowsText, OnI386
        <3>2. /\ reg["rbx"] = entry["rbx"] /\ reg["rsi"] = entry["rsi"]
              /\ reg["rdi"] = entry["rdi"] /\ reg["rbp"] = entry["rbp"]
            BY <3>1, SavesParts
        <3> QED BY <2>1, <2>3, <3>1, <3>2 DEF CalleeSaved, Base
    <2> QED BY <2>2, <2>3, StateParts
<1> QED BY <1>1, AlwaysFollows, PTL
=============================================================================
