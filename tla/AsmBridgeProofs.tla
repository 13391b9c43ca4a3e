--------------------------- MODULE AsmBridgeProofs ---------------------------
(***************************************************************************)
(* Proofs about AsmBridge: what the stub and the assembly bridge hand to   *)
(* the C bridge and to the program, for every content of the registers,    *)
(* every number of stack arguments and signals at every instruction.       *)
(***************************************************************************)
EXTENDS AsmBridge, TLAPS

-----------------------------------------------------------------------------
(***************************************************************************)
(* The layout and the text.                                                *)
(***************************************************************************)
LEMMA FieldOrderParts ==
    /\ DOMAIN FieldOrder = 1 .. 12
    /\ FieldOrder[1] = "rax" /\ FieldOrder[2] = "rdi" /\ FieldOrder[3] = "rsi"
    /\ FieldOrder[4] = "rdx" /\ FieldOrder[5] = "rcx" /\ FieldOrder[6] = "r8"
    /\ FieldOrder[7] = "r9" /\ FieldOrder[8] = "r10" /\ FieldOrder[9] = "r11"
    /\ FieldOrder[10] = "rflags" /\ FieldOrder[11] = "rbp" /\ FieldOrder[12] = "rsp"
BY DEF FieldOrder

LEMMA RegisterNames ==
    Register = {"rax", "rdi", "rsi", "rdx", "rcx", "r8", "r9", "r10", "r11",
                "rflags", "rbp", "rsp"}
<1>1. ASSUME NEW r \in Register
      PROVE  r \in {"rax", "rdi", "rsi", "rdx", "rcx", "r8", "r9", "r10", "r11",
                    "rflags", "rbp", "rsp"}
    <2>1. PICK i \in 1 .. 12 : r = FieldOrder[i]
        BY <1>1, FieldOrderParts DEF Register
    <2>2. i \in {1, 2, 3, 4, 5, 6, 7, 8, 9, 10, 11, 12}
        BY <2>1
    <2> QED BY <2>1, <2>2, FieldOrderParts
<1>2. \A i \in 1 .. 12 : FieldOrder[i] \in Register
    BY FieldOrderParts DEF Register
<1>3. {"rax", "rdi", "rsi", "rdx", "rcx", "r8", "r9", "r10", "r11",
       "rflags", "rbp", "rsp"} \subseteq Register
    <2>1. /\ FieldOrder[1] \in Register /\ FieldOrder[2] \in Register
          /\ FieldOrder[3] \in Register /\ FieldOrder[4] \in Register
          /\ FieldOrder[5] \in Register /\ FieldOrder[6] \in Register
          /\ FieldOrder[7] \in Register /\ FieldOrder[8] \in Register
          /\ FieldOrder[9] \in Register /\ FieldOrder[10] \in Register
          /\ FieldOrder[11] \in Register /\ FieldOrder[12] \in Register
        BY <1>2
    <2> QED BY <2>1, FieldOrderParts
<1> QED BY <1>1, <1>3

\* A field of the struct is where its place in FieldOrder says.
LEMMA Offsets ==
    \A i \in 1 .. 12 : Offset(FieldOrder[i]) = i - 1
<1>1. \A i, j \in 1 .. 12 : FieldOrder[i] = FieldOrder[j] => i = j
    <2> SUFFICES ASSUME NEW i \in 1 .. 12, NEW j \in 1 .. 12, FieldOrder[i] = FieldOrder[j]
                 PROVE  i = j
        OBVIOUS
    <2>1. /\ i \in {1, 2, 3, 4, 5, 6, 7, 8, 9, 10, 11, 12}
          /\ j \in {1, 2, 3, 4, 5, 6, 7, 8, 9, 10, 11, 12}
        OBVIOUS
    <2> QED BY <2>1, FieldOrderParts
<1>2. TAKE i \in 1 .. 12
<1>3. \A j \in DOMAIN FieldOrder : FieldOrder[j] = FieldOrder[i] <=> j = i
    BY <1>1, FieldOrderParts
<1>4. (CHOOSE j \in DOMAIN FieldOrder : FieldOrder[j] = FieldOrder[i]) = i
    BY <1>3, FieldOrderParts
<1> QED BY <1>4 DEF Offset

LEMMA SaveOrderParts ==
    /\ DOMAIN SaveOrder = 1 .. 12
    /\ \A i \in 1 .. 12 : SaveOrder[i] = FieldOrder[13 - i]
<1>1. DOMAIN SaveOrder = 1 .. 12
    BY DEF SaveOrder
<1>2. /\ SaveOrder[1] = "rsp" /\ SaveOrder[2] = "rbp" /\ SaveOrder[3] = "rflags"
      /\ SaveOrder[4] = "r11" /\ SaveOrder[5] = "r10" /\ SaveOrder[6] = "r9"
      /\ SaveOrder[7] = "r8" /\ SaveOrder[8] = "rcx" /\ SaveOrder[9] = "rdx"
      /\ SaveOrder[10] = "rsi" /\ SaveOrder[11] = "rdi" /\ SaveOrder[12] = "rax"
    BY DEF SaveOrder
<1>3. ASSUME NEW i \in 1 .. 12
      PROVE  SaveOrder[i] = FieldOrder[13 - i]
    <2>1. i \in {1, 2, 3, 4, 5, 6, 7, 8, 9, 10, 11, 12}
        OBVIOUS
    <2> QED BY <2>1, <1>2, FieldOrderParts
<1> QED BY <1>1, <1>3

Symbol ==
    {"rax", "rdi", "rsi", "rdx", "rcx", "r8", "r9", "r10", "r11", "rflags", "rbp", "rsp",
     "push", "pop", "mov", "call", "ret", "jnb", "jmp", "load_sysnum",
     "ok", "cerror", "bridge", "handler", "none"}
Instruction == [op : Symbol, a : Symbol, b : Symbol]

LEMMA InstructionTypes ==
    \A i \in 1 .. 12 : Push(FieldOrder[i]) \in Instruction /\ Pop(FieldOrder[i]) \in Instruction
<1> TAKE i \in 1 .. 12
<1>1. i \in {1, 2, 3, 4, 5, 6, 7, 8, 9, 10, 11, 12}
    OBVIOUS
<1>2. FieldOrder[i] \in Symbol
    BY <1>1, FieldOrderParts DEF Symbol
<1>3. "push" \in Symbol /\ "pop" \in Symbol /\ "none" \in Symbol
    BY DEF Symbol
<1> QED BY <1>2, <1>3 DEF Push, Pop, Op, Instruction

\* (The length is a parameter: the solver loses its way if it sees a numeral here.)
LEMMA Listed ==
    ASSUME NEW S, NEW n \in Nat, NEW f \in [1 .. n -> S]
    PROVE  f \in Seq(S) /\ Len(f) = n
OBVIOUS

\* n instructions, and one piece of the text after another.  (The names keep the solver from
\* unfolding them without end.)
Code(s, n) == s \in Seq(Instruction) /\ Len(s) = n
Join(s, t) == s \o t

LEMMA Joined ==
    ASSUME NEW m \in Nat, NEW n \in Nat, NEW s, NEW t, Code(s, m), Code(t, n)
    PROVE  /\ Code(Join(s, t), m + n)
           /\ \A i \in 1 .. m : Join(s, t)[i] = s[i]
           /\ \A i \in 1 .. n : Join(s, t)[m + i] = t[i]
BY DEF Code, Join

LEMMA StubParts ==
    /\ Code(Stub, 10)
    /\ Stub[1] = Op("load_sysnum", "rax", "none") /\ Stub[2] = Mov("r10", "rcx")
    /\ Stub[3] = Push("rbp") /\ Stub[4] = Mov("rbp", "rsp") /\ Stub[5] = Call("bridge")
    /\ Stub[6] = Pop("rbp") /\ Stub[7] = Op("jnb", "ok", "none") /\ Stub[8] = Mov("rdi", "rax")
    /\ Stub[9] = Op("jmp", "cerror", "none") /\ Stub[10] = Ret
<1>1. Stub \in Seq(Instruction)
    BY DEF Stub, Symbol, Instruction, Op, Mov, Push, Pop, Call, Ret
<1>2. Len(Stub) = 10
    BY DEF Stub
<1>3. /\ Stub[1] = Op("load_sysnum", "rax", "none") /\ Stub[2] = Mov("r10", "rcx")
      /\ Stub[3] = Push("rbp") /\ Stub[4] = Mov("rbp", "rsp") /\ Stub[5] = Call("bridge")
    BY DEF Stub
<1>4. /\ Stub[6] = Pop("rbp") /\ Stub[7] = Op("jnb", "ok", "none") /\ Stub[8] = Mov("rdi", "rax")
      /\ Stub[9] = Op("jmp", "cerror", "none") /\ Stub[10] = Ret
    BY DEF Stub
<1> QED BY <1>1, <1>2, <1>3, <1>4 DEF Code

LEMMA PushesParts ==
    /\ Code(Pushes(SaveOrder), 12)
    /\ \A i \in 1 .. 12 : Pushes(SaveOrder)[i] = Push(FieldOrder[13 - i])
<1>1. Pushes(SaveOrder) = [i \in 1 .. 12 |-> Push(SaveOrder[i])]
    BY SaveOrderParts DEF Pushes
<1>2. \A i \in 1 .. 12 : Pushes(SaveOrder)[i] = Push(FieldOrder[13 - i])
    BY <1>1, SaveOrderParts
<1>3. \A i \in 1 .. 12 : Pushes(SaveOrder)[i] \in Instruction
    BY <1>2, InstructionTypes
<1>4. Pushes(SaveOrder) \in [1 .. 12 -> Instruction]
    BY <1>1, <1>3
<1>5. 12 \in Nat
    OBVIOUS
<1> QED BY <1>2, <1>4, <1>5, Listed DEF Code

LEMMA PopsParts ==
    /\ Code(Pops(RestoreOrder), 12)
    /\ \A i \in 1 .. 12 : Pops(RestoreOrder)[i] = Pop(FieldOrder[i])
<1>1. RestoreOrder = FieldOrder
    BY DEF RestoreOrder, FieldOrder
<1>2. Pops(RestoreOrder) = [i \in 1 .. 12 |-> Pop(FieldOrder[i])]
    BY <1>1, FieldOrderParts DEF Pops
<1>3. \A i \in 1 .. 12 : Pops(RestoreOrder)[i] \in Instruction
    BY <1>2, InstructionTypes
<1>4. Pops(RestoreOrder) \in [1 .. 12 -> Instruction]
    BY <1>2, <1>3
<1>5. 12 \in Nat
    OBVIOUS
<1> QED BY <1>2, <1>4, <1>5, Listed DEF Code

LEMMA BridgeParts ==
    /\ Code(Bridge, 30)
    /\ Bridge[1] = Push("rbp") /\ Bridge[2] = Mov("rbp", "rsp")
    /\ \A i \in 1 .. 12 : Bridge[2 + i] = Push(FieldOrder[13 - i])
    /\ Bridge[15] = Mov("rdi", "rsp") /\ Bridge[16] = Call("handler")
    /\ \A i \in 1 .. 12 : Bridge[16 + i] = Pop(FieldOrder[i])
    /\ Bridge[29] = Pop("rbp") /\ Bridge[30] = Ret
<1> DEFINE head == << Push("rbp"), Mov("rbp", "rsp") >>
           middle == << Mov("rdi", "rsp"), Call("handler") >>
           end == << Pop("rbp"), Ret >>
           P == Pushes(SaveOrder)
           Q == Pops(RestoreOrder)
<1>1. Code(head, 2) /\ head[1] = Push("rbp") /\ head[2] = Mov("rbp", "rsp")
    BY DEF Code, Symbol, Instruction, Push, Mov, Op
<1>2. Code(middle, 2) /\ middle[1] = Mov("rdi", "rsp") /\ middle[2] = Call("handler")
    BY DEF Code, Symbol, Instruction, Mov, Call, Op
<1>3. Code(end, 2) /\ end[1] = Pop("rbp") /\ end[2] = Ret
    BY DEF Code, Symbol, Instruction, Pop, Ret, Op
<1>4. Code(P, 12) /\ \A i \in 1 .. 12 : P[i] = Push(FieldOrder[13 - i])
    BY PushesParts
<1>5. Code(Q, 12) /\ \A i \in 1 .. 12 : Q[i] = Pop(FieldOrder[i])
    BY PopsParts
<1>6. Bridge = (((head \o P) \o middle) \o Q) \o end
    BY DEF Bridge
<1> HIDE DEF head, middle, end, P, Q
<1> DEFINE b2 == Join(head, P)
           b3 == Join(b2, middle)
           b4 == Join(b3, Q)
<1>7. Bridge = Join(b4, end)
    BY <1>6 DEF Join
<1> HIDE DEF b2, b3, b4
<1>8. /\ Code(b2, 14)
      /\ \A i \in 1 .. 2 : b2[i] = head[i]
      /\ \A i \in 1 .. 12 : b2[2 + i] = P[i]
    BY <1>1, <1>4, Joined DEF b2
<1>9. /\ Code(b3, 16)
      /\ \A i \in 1 .. 14 : b3[i] = b2[i]
      /\ \A i \in 1 .. 2 : b3[14 + i] = middle[i]
    BY <1>2, <1>8, Joined DEF b3
<1>10. /\ Code(b4, 28)
       /\ \A i \in 1 .. 16 : b4[i] = b3[i]
       /\ \A i \in 1 .. 12 : b4[16 + i] = Q[i]
    BY <1>5, <1>9, Joined DEF b4
<1>11. /\ Code(Bridge, 30)
       /\ \A i \in 1 .. 28 : Bridge[i] = b4[i]
       /\ \A i \in 1 .. 2 : Bridge[28 + i] = end[i]
    BY <1>3, <1>7, <1>10, Joined
<1>12. \A i \in 1 .. 2 : /\ Bridge[i] = head[i] /\ Bridge[14 + i] = middle[i]
                         /\ Bridge[28 + i] = end[i]
    <2> TAKE i \in 1 .. 2
    <2>1. i \in 1 .. 14 /\ i \in 1 .. 28 /\ i \in 1 .. 16 /\ 14 + i \in 1 .. 16 /\ 14 + i \in 1 .. 28
        OBVIOUS
    <2>2. b3[i] = head[i] /\ b3[14 + i] = middle[i]
        BY <1>8, <1>9, <2>1
    <2> QED BY <1>10, <1>11, <2>1, <2>2
<1>13. \A i \in 1 .. 12 : Bridge[2 + i] = P[i] /\ Bridge[16 + i] = Q[i]
    <2> TAKE i \in 1 .. 12
    <2>1. /\ 2 + i \in 1 .. 14 /\ 2 + i \in 1 .. 16 /\ 2 + i \in 1 .. 28 /\ 16 + i \in 1 .. 28
        OBVIOUS
    <2>2. b3[2 + i] = P[i]
        BY <1>8, <1>9, <2>1
    <2>3. b4[2 + i] = P[i] /\ b4[16 + i] = Q[i]
        BY <1>10, <2>1, <2>2
    <2> QED BY <1>11, <2>1, <2>3
<1>14. /\ Bridge[1] = head[1] /\ Bridge[2] = head[2]
       /\ Bridge[15] = middle[1] /\ Bridge[16] = middle[2]
       /\ Bridge[29] = end[1] /\ Bridge[30] = end[2]
    BY <1>12
<1> QED BY <1>1, <1>2, <1>3, <1>4, <1>5, <1>11, <1>13, <1>14

LEMMA Addresses ==
    /\ Address("bridge") = 11 /\ Address("ok") = 10
    /\ Address("handler") = -2 /\ Address("cerror") = -3 /\ PROGRAM = -1
<1>1. Len(Stub) = 10
    BY StubParts DEF Code
<1> QED BY <1>1 DEF Address, PROGRAM

\* Every instruction of the text at its address.
LEMMA TextParts ==
    /\ DOMAIN Text = 1 .. 40 /\ Len(Text) = 40
    /\ Text[1] = Op("load_sysnum", "rax", "none") /\ Text[2] = Mov("r10", "rcx")
    /\ Text[3] = Push("rbp") /\ Text[4] = Mov("rbp", "rsp") /\ Text[5] = Call("bridge")
    /\ Text[6] = Pop("rbp") /\ Text[7] = Op("jnb", "ok", "none") /\ Text[8] = Mov("rdi", "rax")
    /\ Text[9] = Op("jmp", "cerror", "none") /\ Text[10] = Ret
    /\ Text[11] = Push("rbp") /\ Text[12] = Mov("rbp", "rsp")
    /\ \A i \in 13 .. 24 : Text[i] = Push(FieldOrder[25 - i])
    /\ Text[25] = Mov("rdi", "rsp") /\ Text[26] = Call("handler")
    /\ \A i \in 27 .. 38 : Text[i] = Pop(FieldOrder[i - 26])
    /\ Text[39] = Pop("rbp") /\ Text[40] = Ret
<1>1. /\ Code(Text, 40)
      /\ \A i \in 1 .. 10 : Text[i] = Stub[i]
      /\ \A i \in 1 .. 30 : Text[10 + i] = Bridge[i]
    <2>1. Text = Join(Stub, Bridge)
        BY DEF Text, Join
    <2> QED BY <2>1, StubParts, BridgeParts, Joined
<1>2. DOMAIN Text = 1 .. 40 /\ Len(Text) = 40
    BY <1>1 DEF Code
<1>3. \A i \in 13 .. 24 : Text[i] = Push(FieldOrder[25 - i])
    <2> TAKE i \in 13 .. 24
    <2>1. i - 12 \in 1 .. 12 /\ i - 10 \in 1 .. 30 /\ i = 10 + (i - 10) /\ i - 10 = 2 + (i - 12)
        OBVIOUS
    <2>2. Text[i] = Bridge[i - 10]
        <3>1. Text[10 + (i - 10)] = Bridge[i - 10]
            BY <1>1, <2>1
        <3> QED BY <2>1, <3>1
    <2>3. Bridge[2 + (i - 12)] = Push(FieldOrder[13 - (i - 12)])
        BY <2>1, BridgeParts
    <2>4. 13 - (i - 12) = 25 - i
        OBVIOUS
    <2> QED BY <2>1, <2>2, <2>3, <2>4
<1>4. \A i \in 27 .. 38 : Text[i] = Pop(FieldOrder[i - 26])
    <2> TAKE i \in 27 .. 38
    <2>1. i - 26 \in 1 .. 12 /\ i - 10 \in 1 .. 30 /\ i = 10 + (i - 10) /\ i - 10 = 16 + (i - 26)
        OBVIOUS
    <2>2. Text[i] = Bridge[i - 10]
        <3>1. Text[10 + (i - 10)] = Bridge[i - 10]
            BY <1>1, <2>1
        <3> QED BY <2>1, <3>1
    <2>3. Bridge[16 + (i - 26)] = Pop(FieldOrder[i - 26])
        BY <2>1, BridgeParts
    <2> QED BY <2>1, <2>2, <2>3
<1>5. /\ Text[1] = Stub[1] /\ Text[2] = Stub[2] /\ Text[3] = Stub[3] /\ Text[4] = Stub[4]
      /\ Text[5] = Stub[5] /\ Text[6] = Stub[6] /\ Text[7] = Stub[7] /\ Text[8] = Stub[8]
      /\ Text[9] = Stub[9] /\ Text[10] = Stub[10]
    BY <1>1
<1>6. /\ Text[11] = Bridge[1] /\ Text[12] = Bridge[2]
      /\ Text[25] = Bridge[15] /\ Text[26] = Bridge[16]
      /\ Text[39] = Bridge[29] /\ Text[40] = Bridge[30]
    BY <1>1
<1> QED BY <1>1, <1>2, <1>3, <1>4, <1>5, <1>6, StubParts, BridgeParts

\* The text by operation.
LEMMA Operations ==
    /\ Text[1].op = "load_sysnum" /\ Text[1].a = "rax"
    /\ Text[2].op = "mov" /\ Text[2].a = "r10" /\ Text[2].b = "rcx"
    /\ Text[3].op = "push" /\ Text[3].a = "rbp"
    /\ Text[4].op = "mov" /\ Text[4].a = "rbp" /\ Text[4].b = "rsp"
    /\ Text[5].op = "call" /\ Text[5].a = "bridge"
    /\ Text[6].op = "pop" /\ Text[6].a = "rbp"
    /\ Text[7].op = "jnb" /\ Text[7].a = "ok"
    /\ Text[8].op = "mov" /\ Text[8].a = "rdi" /\ Text[8].b = "rax"
    /\ Text[9].op = "jmp" /\ Text[9].a = "cerror"
    /\ Text[10].op = "ret"
    /\ Text[11].op = "push" /\ Text[11].a = "rbp"
    /\ Text[12].op = "mov" /\ Text[12].a = "rbp" /\ Text[12].b = "rsp"
    /\ \A i \in 13 .. 24 : Text[i].op = "push" /\ Text[i].a = FieldOrder[25 - i]
    /\ Text[25].op = "mov" /\ Text[25].a = "rdi" /\ Text[25].b = "rsp"
    /\ Text[26].op = "call" /\ Text[26].a = "handler"
    /\ \A i \in 27 .. 38 : Text[i].op = "pop" /\ Text[i].a = FieldOrder[i - 26]
    /\ Text[39].op = "pop" /\ Text[39].a = "rbp"
    /\ Text[40].op = "ret"
<1>1. ASSUME NEW i \in 13 .. 24
      PROVE  Text[i].op = "push" /\ Text[i].a = FieldOrder[25 - i]
    <2>1. Text[i] = Push(FieldOrder[25 - i])
        BY TextParts
    <2> QED BY <2>1 DEF Push, Op
<1>2. ASSUME NEW i \in 27 .. 38
      PROVE  Text[i].op = "pop" /\ Text[i].a = FieldOrder[i - 26]
    <2>1. Text[i] = Pop(FieldOrder[i - 26])
        BY TextParts
    <2> QED BY <2>1 DEF Pop, Op
<1>3. /\ Text[3].op = "push" /\ Text[3].a = "rbp" /\ Text[11].op = "push" /\ Text[11].a = "rbp"
    <2>1. Text[3] = Push("rbp") /\ Text[11] = Push("rbp")
        BY TextParts
    <2> QED BY <2>1 DEF Push, Op
<1>4. Text[6].op = "pop" /\ Text[6].a = "rbp" /\ Text[39].op = "pop" /\ Text[39].a = "rbp"
    <2>1. Text[6] = Pop("rbp") /\ Text[39] = Pop("rbp")
        BY TextParts
    <2> QED BY <2>1 DEF Pop, Op
<1>5. /\ Text[5].op = "call" /\ Text[5].a = "bridge"
      /\ Text[26].op = "call" /\ Text[26].a = "handler"
    <2>1. Text[5] = Call("bridge") /\ Text[26] = Call("handler")
        BY TextParts
    <2> QED BY <2>1 DEF Call, Op
<1>6. /\ Text[2].op = "mov" /\ Text[2].a = "r10" /\ Text[2].b = "rcx"
      /\ Text[4].op = "mov" /\ Text[4].a = "rbp" /\ Text[4].b = "rsp"
      /\ Text[8].op = "mov" /\ Text[8].a = "rdi" /\ Text[8].b = "rax"
    <2>1. /\ Text[2] = Mov("r10", "rcx") /\ Text[4] = Mov("rbp", "rsp")
          /\ Text[8] = Mov("rdi", "rax")
        BY TextParts
    <2> QED BY <2>1 DEF Mov, Op
<1>7. /\ Text[12].op = "mov" /\ Text[12].a = "rbp" /\ Text[12].b = "rsp"
      /\ Text[25].op = "mov" /\ Text[25].a = "rdi" /\ Text[25].b = "rsp"
    <2>1. Text[12] = Mov("rbp", "rsp") /\ Text[25] = Mov("rdi", "rsp")
        BY TextParts
    <2> QED BY <2>1 DEF Mov, Op
<1>8. /\ Text[1].op = "load_sysnum" /\ Text[1].a = "rax"
      /\ Text[7].op = "jnb" /\ Text[7].a = "ok" /\ Text[9].op = "jmp" /\ Text[9].a = "cerror"
    <2>1. /\ Text[1] = Op("load_sysnum", "rax", "none") /\ Text[7] = Op("jnb", "ok", "none")
          /\ Text[9] = Op("jmp", "cerror", "none")
        BY TextParts
    <2> QED BY <2>1 DEF Op
<1>9. Text[10].op = "ret" /\ Text[40].op = "ret"
    <2>1. Text[10] = Ret /\ Text[40] = Ret
        BY TextParts
    <2> QED BY <2>1 DEF Ret, Op
<1> QED BY <1>1, <1>2, <1>3, <1>4, <1>5, <1>6, <1>7, <1>8, <1>9

\* Where each operation stands.
LEMMA Places ==
    ASSUME pc \in DOMAIN Text
    PROVE  \/ pc \in {1, 2, 3, 4, 5, 6, 7, 8, 9, 10, 11, 12, 25, 26, 39, 40}
           \/ pc \in 13 .. 24 \/ pc \in 27 .. 38
<1>1. pc \in 1 .. 40
    BY TextParts
<1> QED BY <1>1

LEMMA PushPlaces ==
    ASSUME At("push")
    PROVE  \/ pc = 3 /\ A = "rbp"
           \/ pc = 11 /\ A = "rbp"
           \/ pc \in 13 .. 24 /\ A = FieldOrder[25 - pc]
<1>1. pc \in DOMAIN Text /\ Text[pc].op = "push"
    BY DEF At
<1>2. CASE pc \in {1, 2, 3, 4, 5, 6, 7, 8, 9, 10, 11, 12, 25, 26, 39, 40}
    BY <1>1, <1>2, Operations DEF A
<1>3. CASE pc \in 13 .. 24
    BY <1>1, <1>3, Operations DEF A
<1>4. CASE pc \in 27 .. 38
    BY <1>1, <1>4, Operations
<1> QED BY <1>1, <1>2, <1>3, <1>4, Places

LEMMA PopPlaces ==
    ASSUME At("pop")
    PROVE  \/ pc = 6 /\ A = "rbp"
           \/ pc = 39 /\ A = "rbp"
           \/ pc \in 27 .. 38 /\ A = FieldOrder[pc - 26]
<1>1. pc \in DOMAIN Text /\ Text[pc].op = "pop"
    BY DEF At
<1>2. CASE pc \in {1, 2, 3, 4, 5, 6, 7, 8, 9, 10, 11, 12, 25, 26, 39, 40}
    BY <1>1, <1>2, Operations DEF A
<1>3. CASE pc \in 13 .. 24
    BY <1>1, <1>3, Operations
<1>4. CASE pc \in 27 .. 38
    BY <1>1, <1>4, Operations DEF A
<1> QED BY <1>1, <1>2, <1>3, <1>4, Places

LEMMA MovPlaces ==
    ASSUME At("mov")
    PROVE  \/ pc = 2 /\ A = "r10" /\ B = "rcx"
           \/ pc \in {4, 12} /\ A = "rbp" /\ B = "rsp"
           \/ pc = 8 /\ A = "rdi" /\ B = "rax"
           \/ pc = 25 /\ A = "rdi" /\ B = "rsp"
<1>1. pc \in DOMAIN Text /\ Text[pc].op = "mov"
    BY DEF At
<1>2. CASE pc \in {1, 2, 3, 4, 5, 6, 7, 8, 9, 10, 11, 12, 25, 26, 39, 40}
    BY <1>1, <1>2, Operations DEF A, B
<1>3. pc \notin 13 .. 24 /\ pc \notin 27 .. 38
    BY <1>1, Operations
<1> QED BY <1>1, <1>2, <1>3, Places

LEMMA LoadPlace ==
    ASSUME At("load_sysnum")
    PROVE  pc = 1 /\ A = "rax"
<1>1. pc \in DOMAIN Text /\ Text[pc].op = "load_sysnum"
    BY DEF At
<1>2. pc \notin 13 .. 24 /\ pc \notin 27 .. 38
    BY <1>1, Operations
<1>3. pc \in {1, 2, 3, 4, 5, 6, 7, 8, 9, 10, 11, 12, 25, 26, 39, 40}
    BY <1>1, <1>2, Places
<1> QED BY <1>1, <1>3, Operations DEF A

LEMMA CallPlaces ==
    ASSUME At("call")
    PROVE  \/ pc = 5 /\ A = "bridge"
           \/ pc = 26 /\ A = "handler"
<1>1. pc \in DOMAIN Text /\ Text[pc].op = "call"
    BY DEF At
<1>2. pc \notin 13 .. 24 /\ pc \notin 27 .. 38
    BY <1>1, Operations
<1>3. pc \in {1, 2, 3, 4, 5, 6, 7, 8, 9, 10, 11, 12, 25, 26, 39, 40}
    BY <1>1, <1>2, Places
<1> QED BY <1>1, <1>3, Operations DEF A

LEMMA JnbPlace ==
    ASSUME At("jnb")
    PROVE  pc = 7 /\ A = "ok"
<1>1. pc \in DOMAIN Text /\ Text[pc].op = "jnb"
    BY DEF At
<1>2. pc \notin 13 .. 24 /\ pc \notin 27 .. 38
    BY <1>1, Operations
<1>3. pc \in {1, 2, 3, 4, 5, 6, 7, 8, 9, 10, 11, 12, 25, 26, 39, 40}
    BY <1>1, <1>2, Places
<1> QED BY <1>1, <1>3, Operations DEF A

LEMMA JmpPlace ==
    ASSUME At("jmp")
    PROVE  pc = 9 /\ A = "cerror"
<1>1. pc \in DOMAIN Text /\ Text[pc].op = "jmp"
    BY DEF At
<1>2. pc \notin 13 .. 24 /\ pc \notin 27 .. 38
    BY <1>1, Operations
<1>3. pc \in {1, 2, 3, 4, 5, 6, 7, 8, 9, 10, 11, 12, 25, 26, 39, 40}
    BY <1>1, <1>2, Places
<1> QED BY <1>1, <1>3, Operations DEF A

LEMMA RetPlaces ==
    ASSUME At("ret")
    PROVE  pc \in {10, 40}
<1>1. pc \in DOMAIN Text /\ Text[pc].op = "ret"
    BY DEF At
<1>2. pc \notin 13 .. 24 /\ pc \notin 27 .. 38
    BY <1>1, Operations
<1>3. pc \in {1, 2, 3, 4, 5, 6, 7, 8, 9, 10, 11, 12, 25, 26, 39, 40}
    BY <1>1, <1>2, Places
<1> QED BY <1>1, <1>3, Operations

-----------------------------------------------------------------------------
(***************************************************************************)
(* The stack.                                                              *)
(***************************************************************************)
LEMMA Depths ==
    /\ Depth(-1) = 0 /\ Depth(-2) = 17 /\ Depth(-3) = 1
    /\ \A p \in {1, 2, 3, 7, 8, 9, 10} : Depth(p) = 1
    /\ \A p \in {4, 5, 6} : Depth(p) = 2
    /\ Depth(11) = 3 /\ Depth(12) = 4 /\ Depth(26) = 16
    /\ \A p \in 13 .. 25 : Depth(p) = p - 9
    /\ \A p \in 27 .. 40 : Depth(p) = 43 - p
BY Addresses DEF Depth

Where == 1 .. 40 \cup {-1, -2, -3}

LEMMA DepthType == \A p \in Where : Depth(p) \in 0 .. 17
BY Depths DEF Where

LEMMA Frames ==
    /\ Frame(1) = -1 /\ Frame(2) = entry["rbp"] /\ Frame(3) = 6 /\ Frame(4) = Base - 2
    /\ \A d \in 5 .. 16 : Frame(d) = Saved(FieldOrder[17 - d])
    /\ Frame(17) = 27
BY DEF Frame, PROGRAM

LEMMA SameFrames ==
    ASSUME UNCHANGED <<entry, outcome>>
    PROVE  /\ Base' = Base /\ Decided' = Decided
           /\ \A r : Saved(r)' = Saved(r)
           /\ \A d : Frame(d)' = Frame(d)
BY DEF Base, Decided, Saved, Frame

\* TypeOK with numbers for the places.
LEMMA TypeParts ==
    TypeOK <=> /\ reg \in [Register -> Int] /\ mem \in [Stack -> Int]
               /\ pc \in Where /\ reg["rsp"] \in Stack /\ entry \in Start
               /\ outcome \in [rax : Int, rdx : Int, carry : -1 .. 1]
BY TextParts, Addresses DEF TypeOK, Where

\* A call has room on the stack for all it may put there.
LEMMA StackRoom ==
    ASSUME entry \in Start
    PROVE  /\ Base \in Int /\ Base % 2 = 0
           /\ \A d \in 0 .. 17 : Base - d \in Stack /\ Base - d \in Int
           /\ \A i \in DOMAIN StackArg : Base + i - 1 \in Stack /\ Base + i - 1 \in Int /\ i \in Int /\ i >= 1
<1>1. "rsp" \in Register
    BY RegisterNames
<1>2. Base \in Int
    BY <1>1, StartAssumption DEF Base
<1>3. Base % 2 = 0 /\ Base - 17 .. Base + Len(StackArg) \subseteq Stack
    BY StartAssumption DEF Base, Deepest
<1>4. Len(StackArg) \in Nat /\ DOMAIN StackArg = 1 .. Len(StackArg)
    BY StartAssumption
<1>5. ASSUME NEW d \in 0 .. 17
      PROVE  Base - d \in Stack
    BY <1>2, <1>3, <1>4
<1>6. ASSUME NEW i \in DOMAIN StackArg
      PROVE  Base + i - 1 \in Stack /\ Base + i - 1 \in Int /\ i \in Int /\ i >= 1
    <2>1. i \in Int /\ i >= 1 /\ i <= Len(StackArg)
        BY <1>4
    <2>2. Base + i - 1 \in Base - 17 .. Base + Len(StackArg)
        BY <1>2, <1>4, <2>1
    <2> QED BY <1>2, <1>3, <2>1, <2>2
<1>7. \A d \in 0 .. 17 : Base - d \in Int
    BY <1>2
<1> QED BY <1>2, <1>3, <1>5, <1>6, <1>7

\* A step that gives words back and leaves alone those that remain.
LEMMA FramesFollow ==
    ASSUME TypeOK, FramesInPlace, UNCHANGED <<entry, outcome>>,
           pc' # PROGRAM \/ Decided => pc # PROGRAM \/ Decided,
           reg["rsp"]' = Base - Depth(pc)', Depth(pc)' \in 0 .. Depth(pc),
           \A x \in Stack : x >= reg["rsp"] => mem'[x] = mem[x]
    PROVE  FramesInPlace'
<1>1. /\ reg["rsp"] = Base - Depth(pc) /\ Depth(pc) \in 0 .. 17 /\ entry \in Start
      /\ Base \in Int
    BY TypeParts, DepthType, StackRoom DEF FramesInPlace
<1>2. ASSUME NEW d \in 1 .. Depth(pc)'
      PROVE  mem'[Base - d] = Frame(d)
    <2>1. d \in 1 .. Depth(pc) /\ d \in 0 .. 17 /\ d \in Int
        BY <1>1
    <2>2. Base - d \in Stack /\ Base - d >= reg["rsp"]
        BY <1>1, <2>1, StackRoom
    <2> QED BY <2>1, <2>2 DEF FramesInPlace
<1>3. ASSUME pc' # PROGRAM \/ Decided, NEW i \in DOMAIN StackArg
      PROVE  mem'[Base + i - 1] = StackArg[i]
    <2>1. Base + i - 1 \in Stack /\ i \in Int /\ i >= 1
        BY <1>1, StackRoom
    <2>2. Base + i - 1 >= reg["rsp"]
        BY <1>1, <2>1
    <2>3. mem[Base + i - 1] = StackArg[i]
        BY <1>3 DEF FramesInPlace
    <2> QED BY <2>1, <2>2, <2>3
<1>4. /\ reg'["rsp"] = Base - Depth(pc)'
      /\ Base' = Base /\ Decided' = Decided /\ \A d : Frame(d)' = Frame(d)
    BY SameFrames
<1> QED BY <1>2, <1>3, <1>4 DEF FramesInPlace

\* A step that pushes the next word of the frame.
LEMMA PushFollows ==
    ASSUME TypeOK, FramesInPlace, UNCHANGED <<entry, outcome>>, pc # PROGRAM,
           NEW v \in Int, Pushed(v), Depth(pc) \in 1 .. 16, Depth(pc)' = Depth(pc) + 1,
           v = Frame(Depth(pc) + 1)
    PROVE  /\ FramesInPlace'
           /\ mem' \in [Stack -> Int] /\ reg' \in [Register -> Int]
           /\ \A r \in Register \ {"rsp"} : reg'[r] = reg[r]
<1>1. /\ reg["rsp"] = Base - Depth(pc) /\ Base \in Int /\ "rsp" \in Register
      /\ reg \in [Register -> Int] /\ mem \in [Stack -> Int] /\ entry \in Start
    BY TypeParts, RegisterNames, StackRoom DEF FramesInPlace
<1>2. reg["rsp"] - 1 = Base - (Depth(pc) + 1)
    BY <1>1
<1>3. Base - (Depth(pc) + 1) \in Stack
    BY <1>1, StackRoom
<1>4. /\ mem' = [mem EXCEPT ![Base - (Depth(pc) + 1)] = v]
      /\ reg' = [reg EXCEPT !["rsp"] = Base - (Depth(pc) + 1)]
    BY <1>1, <1>2 DEF Pushed
<1>5. /\ mem' \in [Stack -> Int] /\ reg' \in [Register -> Int]
      /\ \A r \in Register \ {"rsp"} : reg'[r] = reg[r]
      /\ reg["rsp"]' = Base - Depth(pc)'
    BY <1>1, <1>3, <1>4
<1>6. ASSUME NEW d \in 1 .. Depth(pc)'
      PROVE  mem'[Base - d] = Frame(d)
    <2>1. CASE d = Depth(pc) + 1
        BY <1>1, <1>3, <1>4, <2>1
    <2>2. CASE d # Depth(pc) + 1
        <3>1. d \in 1 .. Depth(pc) /\ Base - d # Base - (Depth(pc) + 1)
            BY <1>1, <2>2
        <3>2. Base - d \in Stack
            BY <1>1, <3>1, StackRoom
        <3> QED BY <1>1, <1>4, <3>1, <3>2 DEF FramesInPlace
    <2> QED BY <2>1, <2>2
<1>7. ASSUME NEW i \in DOMAIN StackArg
      PROVE  mem'[Base + i - 1] = StackArg[i]
    <2>1. Base + i - 1 \in Stack /\ i \in Int /\ i >= 1
        BY <1>1, StackRoom
    <2>2. Base + i - 1 # Base - (Depth(pc) + 1)
        BY <1>1, <2>1
    <2> QED BY <1>1, <1>4, <2>1, <2>2 DEF FramesInPlace
<1> QED BY <1>5, <1>6, <1>7, SameFrames DEF FramesInPlace

\* The word that the next pop or ret reads.
LEMMA TopOfStack ==
    ASSUME TypeOK, FramesInPlace, Depth(pc) \in 1 .. 17
    PROVE  /\ mem[reg["rsp"]] = Frame(Depth(pc)) /\ mem[reg["rsp"]] \in Int
           /\ reg["rsp"] = Base - Depth(pc) /\ Base \in Int
<1>1. reg["rsp"] \in Stack /\ mem \in [Stack -> Int] /\ entry \in Start
    BY TypeParts
<1>2. mem[reg["rsp"]] \in Int /\ Base \in Int
    BY <1>1, StackRoom
<1> QED BY <1>2 DEF FramesInPlace

LEMMA TypeFollows ==
    ASSUME TypeOK, UNCHANGED <<entry, outcome>>, pc' \in Where, FramesInPlace',
           reg' \in [Register -> Int], mem' \in [Stack -> Int]
    PROVE  TypeOK'
<1>1. entry \in Start /\ Base' = Base /\ Depth(pc)' \in 0 .. 17
    BY TypeParts, SameFrames, DepthType
<1>2. reg["rsp"]' \in Stack
    BY <1>1, StackRoom DEF FramesInPlace
<1> QED BY <1>1, <1>2, TypeParts, TextParts, Addresses DEF TypeOK, Where

-----------------------------------------------------------------------------
(***************************************************************************)
(* The steps.                                                              *)
(***************************************************************************)
\* What the instructions of the text have in common.
LEMMA InText ==
    ASSUME FollowsText, pc \in DOMAIN Text
    PROVE  /\ pc \in 1 .. 40 /\ pc # PROGRAM /\ Depth(pc) \in 1 .. 17
           /\ reg \in [Register -> Int] /\ mem \in [Stack -> Int] /\ entry \in Start
           /\ Base \in Int /\ reg["rsp"] = Base - Depth(pc)
           /\ TypeOK /\ FramesInPlace
BY TypeParts, TextParts, Depths, StackRoom, Addresses DEF FollowsText, FramesInPlace

\* The registers that the block is pushed from are the ones it is meant to have.
LEMMA BlockInRegisters ==
    ASSUME FollowsText, pc \in 13 .. 24
    PROVE  \A r \in Register : (r = "rsp" => pc = 13) => reg[r] = Saved(r)
<1> SUFFICES ASSUME NEW r \in Register, r = "rsp" => pc = 13
             PROVE  reg[r] = Saved(r)
    OBVIOUS
<1>1. ~Decided
    BY DEF FollowsText, Phases, Asking
<1>2. /\ \A q \in Register \ {"rax", "r10", "rbp", "rsp"} : reg[q] = entry[q]
      /\ reg["rax"] = Sysnum /\ reg["r10"] = entry["rcx"] /\ reg["rbp"] = Base - 4
    BY DEF FollowsText, RegistersOut
<1>3. CASE r = "rsp"
    <2>1. Depth(pc) = 4
        BY <1>3, Depths
    <2> QED BY <1>3, <2>1 DEF FollowsText, FramesInPlace, Saved
<1>4. CASE r \in {"rax", "r10", "rbp"}
    BY <1>1, <1>2, <1>4 DEF Saved
<1>5. CASE r \notin {"rax", "r10", "rbp", "rsp"}
    BY <1>1, <1>2, <1>5 DEF Saved
<1> QED BY <1>3, <1>4, <1>5

LEMMA PushStep ==
    ASSUME FollowsText, DoPush, UNCHANGED <<entry, outcome>>
    PROVE  FollowsText'
<1>1. /\ At("push") /\ pc \in DOMAIN Text /\ Pushed(reg[A]) /\ pc' = pc + 1
    BY DEF DoPush, At
<1>2. /\ TypeOK /\ FramesInPlace /\ pc # PROGRAM /\ "rbp" \in Register
      /\ reg \in [Register -> Int] /\ Base \in Int
    BY <1>1, InText, RegisterNames
<1>3. CASE pc = 3 /\ A = "rbp"
    <2>1. Depth(pc) = 1 /\ Depth(pc)' = 2 /\ pc' = 4
        BY <1>1, <1>3, Depths
    <2>2. reg[A] = Frame(Depth(pc) + 1) /\ reg[A] \in Int
        BY <1>2, <1>3, <2>1, Frames DEF FollowsText, RegistersOut
    <2>3. /\ FramesInPlace' /\ mem' \in [Stack -> Int] /\ reg' \in [Register -> Int]
          /\ \A r \in Register \ {"rsp"} : reg'[r] = reg[r]
        BY <1>1, <1>2, <2>1, <2>2, PushFollows
    <2>4. TypeOK'
        BY <1>2, <2>1, <2>3, TypeFollows DEF Where
    <2>5. RegistersOut'
        BY <1>2, <1>3, <2>1, <2>3, RegisterNames, Addresses DEF FollowsText, RegistersOut
    <2> QED BY <1>3, <2>1, <2>3, <2>4, <2>5, SameFrames, Addresses
            DEF FollowsText, Phases, Asking, Answered, RegistersBack, Resumed
<1>4. CASE pc = 11 /\ A = "rbp"
    <2>1. Depth(pc) = 3 /\ Depth(pc)' = 4 /\ pc' = 12
        BY <1>1, <1>4, Depths
    <2>2. reg[A] = Frame(Depth(pc) + 1) /\ reg[A] \in Int
        BY <1>2, <1>4, <2>1, Frames DEF FollowsText, RegistersOut
    <2>3. /\ FramesInPlace' /\ mem' \in [Stack -> Int] /\ reg' \in [Register -> Int]
          /\ \A r \in Register \ {"rsp"} : reg'[r] = reg[r]
        BY <1>1, <1>2, <2>1, <2>2, PushFollows
    <2>4. TypeOK'
        BY <1>2, <2>1, <2>3, TypeFollows DEF Where
    <2>5. RegistersOut'
        BY <1>2, <1>4, <2>1, <2>3, RegisterNames, Addresses, SameFrames
        DEF FollowsText, RegistersOut
    <2> QED BY <1>4, <2>1, <2>3, <2>4, <2>5, SameFrames, Addresses
            DEF FollowsText, Phases, Asking, Answered, RegistersBack, Resumed
<1>5. CASE pc \in 13 .. 24 /\ A = FieldOrder[25 - pc]
    <2>1. Depth(pc) = pc - 9 /\ Depth(pc)' = pc - 8 /\ pc' = pc + 1 /\ pc \in Int
        BY <1>1, <1>5, Depths
    <2>2. reg[A] = Frame(Depth(pc) + 1) /\ reg[A] \in Int
        <3>1. A \in Register /\ (A = "rsp" => pc = 13)
            <4>1. pc \in {13, 14, 15, 16, 17, 18, 19, 20, 21, 22, 23, 24}
                BY <1>5
            <4> QED BY <1>5, <4>1, FieldOrderParts, RegisterNames
        <3>2. reg[A] = Saved(A) /\ reg[A] \in Int
            BY <1>2, <1>5, <3>1, BlockInRegisters
        <3>3. Frame(pc - 8) = Saved(FieldOrder[17 - (pc - 8)])
            BY <1>5, Frames
        <3>4. 17 - (pc - 8) = 25 - pc /\ Depth(pc) + 1 = pc - 8
            BY <1>5, <2>1
        <3> QED BY <1>5, <3>2, <3>3, <3>4
    <2>3. /\ FramesInPlace' /\ mem' \in [Stack -> Int] /\ reg' \in [Register -> Int]
          /\ \A r \in Register \ {"rsp"} : reg'[r] = reg[r]
        BY <1>1, <1>2, <1>5, <2>1, <2>2, PushFollows
    <2>4. TypeOK'
        BY <1>2, <1>5, <2>1, <2>3, TypeFollows DEF Where
    <2>5. RegistersOut'
        BY <1>2, <1>5, <2>1, <2>3, RegisterNames, Addresses, SameFrames
        DEF FollowsText, RegistersOut
    <2> QED BY <1>5, <2>1, <2>3, <2>4, <2>5, SameFrames, Addresses
            DEF FollowsText, Phases, Asking, Answered, RegistersBack, Resumed
<1> QED BY <1>1, <1>3, <1>4, <1>5, PushPlaces

\* A pop takes the last word of the frame, whatever register it is for.
LEMMA Popped ==
    ASSUME FollowsText, DoPop, UNCHANGED <<entry, outcome>>, A \in Register,
           Depth(pc)' = Depth(pc) - 1, A = "rsp" => Frame(Depth(pc)) = Base - Depth(pc)',
           pc' \in Where
    PROVE  /\ FramesInPlace' /\ TypeOK'
           /\ reg'[A] = Frame(Depth(pc))
           /\ \A r \in Register \ {"rsp", A} : reg'[r] = reg[r]
<1>1. /\ pc \in DOMAIN Text /\ "rsp" \in Register /\ mem' = mem
      /\ reg' = [[reg EXCEPT !["rsp"] = @ + 1] EXCEPT ![A] = mem[reg["rsp"]]]
    BY RegisterNames DEF DoPop, At
<1>2. /\ TypeOK /\ FramesInPlace /\ pc # PROGRAM /\ Depth(pc) \in 1 .. 17 /\ Base \in Int
      /\ reg \in [Register -> Int] /\ mem \in [Stack -> Int] /\ reg["rsp"] = Base - Depth(pc)
    BY <1>1, InText
<1>3. mem[reg["rsp"]] = Frame(Depth(pc)) /\ mem[reg["rsp"]] \in Int
    BY <1>2, TopOfStack
<1>4. /\ reg'[A] = Frame(Depth(pc)) /\ reg' \in [Register -> Int]
      /\ \A r \in Register \ {"rsp", A} : reg'[r] = reg[r]
      /\ A # "rsp" => reg'["rsp"] = reg["rsp"] + 1
    BY <1>1, <1>2, <1>3
<1>5. reg["rsp"]' = Base - Depth(pc)' /\ Depth(pc)' \in 0 .. Depth(pc)
    BY <1>2, <1>4
<1>6. FramesInPlace'
    BY <1>1, <1>2, <1>5, FramesFollow
<1> QED BY <1>1, <1>2, <1>4, <1>6, TypeFollows

LEMMA PopStep ==
    ASSUME FollowsText, DoPop, UNCHANGED <<entry, outcome>>
    PROVE  FollowsText'
<1>1. /\ At("pop") /\ pc \in DOMAIN Text /\ pc' = pc + 1
    BY DEF DoPop, At
<1>2. "rbp" \in Register
    BY RegisterNames
<1>3. CASE pc = 6 /\ A = "rbp"
    <2>1. Depth(pc) = 2 /\ Depth(pc)' = 1 /\ pc' = 7
        BY <1>1, <1>3, Depths
    <2>2. /\ FramesInPlace' /\ TypeOK' /\ reg'["rbp"] = entry["rbp"]
          /\ \A r \in Register \ {"rbp", "rsp"} : reg'[r] = reg[r]
        BY <1>2, <1>3, <2>1, Popped, Frames DEF Where
    <2>3. RegistersBack'
        BY <1>3, <2>1, <2>2, SameFrames, Addresses DEF FollowsText, RegistersBack
    <2> QED BY <1>3, <2>1, <2>2, <2>3, SameFrames, Addresses
            DEF FollowsText, Phases, Asking, Answered, RegistersOut, Resumed
<1>4. CASE pc = 39 /\ A = "rbp"
    <2>1. Depth(pc) = 4 /\ Depth(pc)' = 3 /\ pc' = 40
        BY <1>1, <1>4, Depths
    <2>2. /\ FramesInPlace' /\ TypeOK'
          /\ \A r \in Register \ {"rbp", "rsp"} : reg'[r] = reg[r]
        BY <1>2, <1>4, <2>1, Popped DEF Where
    <2>3. RegistersBack'
        BY <1>4, <2>1, <2>2, SameFrames, Addresses DEF FollowsText, RegistersBack
    <2> QED BY <1>4, <2>1, <2>2, <2>3, SameFrames, Addresses
            DEF FollowsText, Phases, Asking, Answered, RegistersOut, Resumed
<1>5. CASE pc \in 27 .. 38 /\ A = FieldOrder[pc - 26]
    <2>1. /\ Depth(pc) = 43 - pc /\ Depth(pc)' = Depth(pc) - 1 /\ pc' = pc + 1 /\ pc \in Int
          /\ pc' \in Where
        BY <1>1, <1>5, Depths DEF Where
    <2>2. A \in Register /\ (A = "rsp" <=> pc = 38)
        <3>1. pc \in {27, 28, 29, 30, 31, 32, 33, 34, 35, 36, 37, 38}
            BY <1>5
        <3> QED BY <1>5, <3>1, FieldOrderParts, RegisterNames
    <2>3. Frame(Depth(pc)) = Saved(A)
        <3>1. 43 - pc \in 5 .. 16 /\ 17 - (43 - pc) = pc - 26
            BY <1>5
        <3>2. Frame(43 - pc) = Saved(FieldOrder[17 - (43 - pc)])
            BY <3>1, Frames
        <3> QED BY <1>5, <2>1, <3>1, <3>2
    <2>4. A = "rsp" => Frame(Depth(pc)) = Base - Depth(pc)'
        BY <2>1, <2>2, <2>3 DEF Saved
    <2>5. /\ FramesInPlace' /\ TypeOK' /\ reg'[A] = Saved(A)
          /\ \A r \in Register \ {"rsp", A} : reg'[r] = reg[r]
        BY <2>1, <2>2, <2>3, <2>4, Popped
    <2>6. ASSUME NEW i \in 1 .. pc' - 27, FieldOrder[i] # "rsp"
          PROVE  reg'[FieldOrder[i]] = Saved(FieldOrder[i])
        <3>1. i \in 1 .. 12 /\ FieldOrder[i] \in Register
            BY <1>5, <2>1, FieldOrderParts DEF Register
        <3>2. CASE i = pc - 26
            BY <1>5, <2>5, <3>2
        <3>3. CASE i # pc - 26
            <4>1. i \in 1 .. pc - 27
                BY <1>5, <2>1, <3>3
            <4>2. reg[FieldOrder[i]] = Saved(FieldOrder[i])
                BY <1>5, <2>6, <4>1 DEF FollowsText, RegistersBack
            <4>3. CASE FieldOrder[i] = A
                BY <2>5, <4>3
            <4>4. CASE FieldOrder[i] # A
                BY <2>5, <2>6, <3>1, <4>2, <4>4
            <4> QED BY <4>3, <4>4
        <3> QED BY <3>2, <3>3
    <2>7. pc' = 39 => \A r \in Register \ {"rbp", "rsp"} : reg'[r] = Saved(r)
        <3> SUFFICES ASSUME pc' = 39, NEW r \in Register \ {"rbp", "rsp"}
                     PROVE  reg'[r] = Saved(r)
            OBVIOUS
        <3>1. PICK i \in 1 .. 12 : r = FieldOrder[i]
            BY FieldOrderParts DEF Register
        <3> QED BY <2>6, <3>1
    <2>8. RegistersBack'
        BY <1>5, <2>1, <2>6, <2>7, SameFrames, Addresses DEF RegistersBack
    <2> QED BY <1>5, <2>1, <2>5, <2>8, SameFrames, Addresses
            DEF FollowsText, Phases, Asking, Answered, RegistersOut, Resumed
<1> QED BY <1>1, <1>3, <1>4, <1>5, PopPlaces

\* An instruction that only loads a register.
LEMMA Loaded ==
    ASSUME FollowsText, pc \in DOMAIN Text, UNCHANGED <<mem, entry, outcome>>,
           NEW r \in Register \ {"rsp"}, NEW v \in Int, reg' = [reg EXCEPT ![r] = v],
           Depth(pc)' = Depth(pc), pc' \in Where
    PROVE  /\ FramesInPlace' /\ TypeOK'
           /\ reg'[r] = v /\ \A q \in Register \ {r} : reg'[q] = reg[q]
<1>1. /\ TypeOK /\ FramesInPlace /\ pc # PROGRAM /\ Depth(pc) \in 1 .. 17 /\ Base \in Int
      /\ reg \in [Register -> Int] /\ mem \in [Stack -> Int] /\ reg["rsp"] = Base - Depth(pc)
    BY InText
<1>2. /\ reg' \in [Register -> Int] /\ reg'["rsp"] = reg["rsp"]
      /\ reg'[r] = v /\ \A q \in Register \ {r} : reg'[q] = reg[q]
    BY <1>1, RegisterNames
<1>3. FramesInPlace'
    BY <1>1, <1>2, FramesFollow
<1> QED BY <1>1, <1>2, <1>3, TypeFollows

LEMMA MovStep ==
    ASSUME FollowsText, DoMov, UNCHANGED <<entry, outcome>>
    PROVE  FollowsText'
<1>1. /\ At("mov") /\ pc \in DOMAIN Text /\ pc' = pc + 1 /\ mem' = mem
      /\ reg' = [reg EXCEPT ![A] = reg[B]]
    BY DEF DoMov, At
<1>2. /\ "rbp" \in Register /\ "rsp" \in Register /\ "rdi" \in Register /\ "rax" \in Register
      /\ "rcx" \in Register /\ "r10" \in Register
    BY RegisterNames
<1>3. /\ reg \in [Register -> Int] /\ Base \in Int /\ reg["rsp"] = Base - Depth(pc)
    BY <1>1, InText
<1>4. CASE pc = 2 /\ A = "r10" /\ B = "rcx"
    <2>1. Depth(pc) = 1 /\ Depth(pc)' = 1 /\ pc' = 3 /\ pc' \in Where
        BY <1>1, <1>4, Depths DEF Where
    <2>2. /\ FramesInPlace' /\ TypeOK' /\ reg'["r10"] = reg["rcx"]
          /\ \A q \in Register \ {"r10"} : reg'[q] = reg[q]
        BY <1>1, <1>2, <1>3, <1>4, <2>1, Loaded
    <2>3. RegistersOut'
        BY <1>2, <1>4, <2>1, <2>2, SameFrames, Addresses DEF FollowsText, RegistersOut
    <2> QED BY <1>4, <2>1, <2>2, <2>3, SameFrames, Addresses
            DEF FollowsText, Phases, Asking, Answered, RegistersBack, Resumed
<1>5. CASE pc = 4 /\ A = "rbp" /\ B = "rsp"
    <2>1. Depth(pc) = 2 /\ Depth(pc)' = 2 /\ pc' = 5 /\ pc' \in Where
        BY <1>1, <1>5, Depths DEF Where
    <2>2. /\ FramesInPlace' /\ TypeOK' /\ reg'["rbp"] = Base - 2
          /\ \A q \in Register \ {"rbp"} : reg'[q] = reg[q]
        BY <1>1, <1>2, <1>3, <1>5, <2>1, Loaded
    <2>3. RegistersOut'
        BY <1>2, <1>5, <2>1, <2>2, SameFrames, Addresses DEF FollowsText, RegistersOut
    <2> QED BY <1>5, <2>1, <2>2, <2>3, SameFrames, Addresses
            DEF FollowsText, Phases, Asking, Answered, RegistersBack, Resumed
<1>6. CASE pc = 12 /\ A = "rbp" /\ B = "rsp"
    <2>1. Depth(pc) = 4 /\ Depth(pc)' = 4 /\ pc' = 13 /\ pc' \in Where
        BY <1>1, <1>6, Depths DEF Where
    <2>2. /\ FramesInPlace' /\ TypeOK' /\ reg'["rbp"] = Base - 4
          /\ \A q \in Register \ {"rbp"} : reg'[q] = reg[q]
        BY <1>1, <1>2, <1>3, <1>6, <2>1, Loaded
    <2>3. RegistersOut'
        BY <1>2, <1>6, <2>1, <2>2, SameFrames, Addresses DEF FollowsText, RegistersOut
    <2> QED BY <1>6, <2>1, <2>2, <2>3, SameFrames, Addresses
            DEF FollowsText, Phases, Asking, Answered, RegistersBack, Resumed
<1>7. CASE pc = 25 /\ A = "rdi" /\ B = "rsp"
    <2>1. Depth(pc) = 16 /\ Depth(pc)' = 16 /\ pc' = 26 /\ pc' \in Where
        BY <1>1, <1>7, Depths DEF Where
    <2>2. /\ FramesInPlace' /\ TypeOK' /\ reg'["rdi"] = Base - 16
          /\ \A q \in Register \ {"rdi"} : reg'[q] = reg[q]
        BY <1>1, <1>2, <1>3, <1>7, <2>1, Loaded
    <2>3. RegistersOut'
        BY <1>2, <1>7, <2>1, <2>2, SameFrames, Addresses DEF FollowsText, RegistersOut
    <2> QED BY <1>7, <2>1, <2>2, <2>3, SameFrames, Addresses
            DEF FollowsText, Phases, Asking, Answered, RegistersBack, Resumed
<1>8. CASE pc = 8 /\ A = "rdi" /\ B = "rax"
    <2>1. Depth(pc) = 1 /\ Depth(pc)' = 1 /\ pc' = 9 /\ pc' \in Where
        BY <1>1, <1>8, Depths DEF Where
    <2>2. /\ FramesInPlace' /\ TypeOK' /\ reg'["rdi"] = reg["rax"]
          /\ \A q \in Register \ {"rdi"} : reg'[q] = reg[q]
        BY <1>1, <1>2, <1>3, <1>8, <2>1, Loaded
    <2>3. reg["rax"] = outcome.rax
        BY <1>2, <1>8 DEF FollowsText, RegistersBack, Saved, Phases, Answered
    <2>4. RegistersBack'
        BY <1>2, <1>8, <2>1, <2>2, <2>3, SameFrames, Addresses DEF FollowsText, RegistersBack
    <2> QED BY <1>8, <2>1, <2>2, <2>4, SameFrames, Addresses
            DEF FollowsText, Phases, Asking, Answered, RegistersOut, Resumed
<1> QED BY <1>1, <1>4, <1>5, <1>6, <1>7, <1>8, MovPlaces

LEMMA LoadStep ==
    ASSUME FollowsText, LoadSysnum, UNCHANGED <<entry, outcome>>
    PROVE  FollowsText'
<1>1. /\ pc = 1 /\ A = "rax" /\ pc \in DOMAIN Text /\ pc' = 2 /\ mem' = mem
      /\ reg' = [reg EXCEPT !["rax"] = Sysnum] /\ "rax" \in Register \ {"rsp"} /\ Sysnum \in Int
    BY LoadPlace, RegisterNames, StartAssumption DEF LoadSysnum, At
<1>2. Depth(pc)' = Depth(pc) /\ pc' \in Where
    BY <1>1, Depths DEF Where
<1>3. /\ FramesInPlace' /\ TypeOK' /\ reg'["rax"] = Sysnum
      /\ \A q \in Register \ {"rax"} : reg'[q] = reg[q]
    BY <1>1, <1>2, Loaded
<1>4. RegistersOut'
    BY <1>1, <1>3, RegisterNames, SameFrames, Addresses DEF FollowsText, RegistersOut
<1> QED BY <1>1, <1>3, <1>4, SameFrames, Addresses
        DEF FollowsText, Phases, Asking, Answered, RegistersBack, Resumed

LEMMA CallStep ==
    ASSUME FollowsText, DoCall, UNCHANGED <<entry, outcome>>
    PROVE  FollowsText'
<1>1. At("call") /\ pc \in DOMAIN Text /\ Pushed(pc + 1) /\ pc' = Address(A)
    BY DEF DoCall, At
<1>2. /\ TypeOK /\ FramesInPlace /\ pc # PROGRAM /\ Base \in Int
    BY <1>1, InText
<1>3. CASE pc = 5 /\ A = "bridge"
    <2>1. Depth(pc) = 2 /\ Depth(pc)' = 3 /\ pc' = 11 /\ pc' \in Where
        BY <1>1, <1>3, Depths, Addresses DEF Where
    <2>2. pc + 1 = Frame(Depth(pc) + 1) /\ pc + 1 \in Int
        BY <1>3, <2>1, Frames
    <2>3. /\ FramesInPlace' /\ mem' \in [Stack -> Int] /\ reg' \in [Register -> Int]
          /\ \A r \in Register \ {"rsp"} : reg'[r] = reg[r]
        BY <1>1, <1>2, <2>1, <2>2, PushFollows
    <2>4. TypeOK'
        BY <1>2, <2>1, <2>3, TypeFollows
    <2>5. RegistersOut'
        BY <1>3, <2>1, <2>3, RegisterNames, Addresses, SameFrames DEF FollowsText, RegistersOut
    <2> QED BY <1>3, <2>1, <2>3, <2>4, <2>5, SameFrames, Addresses
            DEF FollowsText, Phases, Asking, Answered, RegistersBack, Resumed
<1>4. CASE pc = 26 /\ A = "handler"
    <2>1. Depth(pc) = 16 /\ Depth(pc)' = 17 /\ pc' = -2 /\ pc' \in Where
        BY <1>1, <1>4, Depths, Addresses DEF Where
    <2>2. pc + 1 = Frame(Depth(pc) + 1) /\ pc + 1 \in Int
        BY <1>4, <2>1, Frames
    <2>3. /\ FramesInPlace' /\ mem' \in [Stack -> Int] /\ reg' \in [Register -> Int]
          /\ \A r \in Register \ {"rsp"} : reg'[r] = reg[r]
        BY <1>1, <1>2, <2>1, <2>2, PushFollows
    <2>4. TypeOK'
        BY <1>2, <2>1, <2>3, TypeFollows
    <2>5. RegistersOut'
        BY <1>4, <2>1, <2>3, RegisterNames, Addresses, SameFrames DEF FollowsText, RegistersOut
    <2> QED BY <1>4, <2>1, <2>3, <2>4, <2>5, SameFrames, Addresses
            DEF FollowsText, Phases, Asking, Answered, RegistersBack, Resumed
<1> QED BY <1>1, <1>3, <1>4, CallPlaces

LEMMA RetStep ==
    ASSUME FollowsText, DoRet, UNCHANGED <<entry, outcome>>
    PROVE  FollowsText'
<1>1. /\ pc \in {10, 40} /\ pc \in DOMAIN Text /\ mem' = mem /\ pc' = mem[reg["rsp"]]
      /\ reg' = [reg EXCEPT !["rsp"] = @ + 1]
    BY RetPlaces DEF DoRet, Returned, At
<1>2. /\ TypeOK /\ FramesInPlace /\ pc # PROGRAM /\ Depth(pc) \in 1 .. 17 /\ Base \in Int
      /\ reg \in [Register -> Int] /\ mem \in [Stack -> Int] /\ reg["rsp"] = Base - Depth(pc)
    BY <1>1, InText
<1>3. pc' = Frame(Depth(pc))
    BY <1>1, <1>2, TopOfStack
<1>4. /\ pc = 10 => Depth(pc) = 1 /\ Depth(pc)' = 0 /\ pc' = -1
      /\ pc = 40 => Depth(pc) = 3 /\ Depth(pc)' = 2 /\ pc' = 6
    BY <1>3, Depths, Frames
<1>5. pc' \in Where /\ Depth(pc)' = Depth(pc) - 1
    BY <1>1, <1>4 DEF Where
<1>6. /\ reg' \in [Register -> Int] /\ reg'["rsp"] = reg["rsp"] + 1
      /\ \A r \in Register \ {"rsp"} : reg'[r] = reg[r]
    BY <1>1, <1>2, RegisterNames
<1>7. FramesInPlace' /\ TypeOK'
    <2>1. reg["rsp"]' = Base - Depth(pc)' /\ Depth(pc)' \in 0 .. Depth(pc)
        BY <1>2, <1>5, <1>6
    <2>2. FramesInPlace'
        BY <1>1, <1>2, <2>1, FramesFollow
    <2> QED BY <1>1, <1>2, <1>5, <1>6, <2>2, TypeFollows
<1>8. CASE pc = 10
    <2>1. Resumed'
        BY <1>4, <1>6, <1>8, RegisterNames, SameFrames, Addresses
        DEF FollowsText, Resumed, RegistersBack, Phases
    <2> QED BY <1>4, <1>7, <1>8, <2>1, Addresses
            DEF FollowsText, Phases, Asking, Answered, RegistersOut, RegistersBack
<1>9. CASE pc = 40
    <2>1. RegistersBack'
        BY <1>4, <1>6, <1>9, SameFrames, Addresses DEF FollowsText, RegistersBack
    <2> QED BY <1>4, <1>7, <1>9, <2>1, SameFrames, Addresses
            DEF FollowsText, Phases, Asking, Answered, RegistersOut, Resumed
<1> QED BY <1>1, <1>8, <1>9

\* The carry flag that the branch of the stub tests is the C bridge's.
LEMMA CarryTested ==
    ASSUME FollowsText, pc = 7
    PROVE  reg["rflags"] % 2 = outcome.carry /\ outcome.carry \in 0 .. 1
<1>1. outcome.carry \in 0 .. 1
    BY TypeParts DEF FollowsText, Phases, Answered, Decided
<1>2. reg["rflags"] = (entry["rflags"] \div 2) * 2 + outcome.carry
    BY RegisterNames DEF FollowsText, RegistersBack, Saved, Phases, Answered
<1>3. entry["rflags"] \in Int
    BY TypeParts, RegisterNames, StartAssumption DEF FollowsText
<1> QED BY <1>1, <1>2, <1>3

LEMMA JumpStep ==
    ASSUME FollowsText, Jump, UNCHANGED <<entry, outcome>>
    PROVE  FollowsText'
<1>1. /\ pc \in DOMAIN Text /\ mem' = mem /\ reg' = reg
      /\ \/ pc = 9 /\ pc' = -3
         \/ pc = 7 /\ pc' = 10 /\ reg["rflags"] % 2 = 0
         \/ pc = 7 /\ pc' = 8 /\ reg["rflags"] % 2 # 0
    BY JnbPlace, JmpPlace, Addresses DEF Jump, At
<1>2. /\ TypeOK /\ FramesInPlace /\ pc # PROGRAM /\ Depth(pc) \in 1 .. 17 /\ Base \in Int
      /\ reg \in [Register -> Int] /\ mem \in [Stack -> Int] /\ reg["rsp"] = Base - Depth(pc)
    BY <1>1, InText
<1>3. pc' \in Where /\ Depth(pc)' = Depth(pc)
    BY <1>1, Depths DEF Where
<1>4. FramesInPlace'
    BY <1>1, <1>2, <1>3, FramesFollow
<1>5. TypeOK'
    BY <1>1, <1>2, <1>3, <1>4, TypeFollows
<1>6. Phases'
    BY <1>1, CarryTested, SameFrames, Addresses DEF FollowsText, Phases, Asking, Answered
<1>7. RegistersBack'
    BY <1>1, SameFrames, Addresses DEF FollowsText, RegistersBack
<1> QED BY <1>1, <1>4, <1>5, <1>6, <1>7, Addresses DEF FollowsText, RegistersOut, Resumed

LEMMA SignalStep == FollowsText /\ Signal => FollowsText'
<1> SUFFICES ASSUME FollowsText, Signal
             PROVE  FollowsText'
    OBVIOUS
<1>1. /\ UNCHANGED <<reg, pc, entry, outcome>>
      /\ mem' = [x \in Stack |-> IF x < reg["rsp"] - RedZone THEN Scrap ELSE mem[x]]
    BY DEF Signal
<1>2. /\ TypeOK /\ FramesInPlace /\ mem \in [Stack -> Int] /\ reg["rsp"] \in Int /\ pc \in Where
      /\ reg \in [Register -> Int] /\ Stack \subseteq Int /\ Scrap \in Int /\ RedZone \in Nat
    BY TypeParts, RegisterNames, StartAssumption DEF FollowsText
<1>3. mem' \in [Stack -> Int] /\ \A x \in Stack : x >= reg["rsp"] => mem'[x] = mem[x]
    BY <1>1, <1>2
<1>4. Depth(pc)' = Depth(pc) /\ Depth(pc) \in 0 .. 17
    BY <1>1, <1>2, DepthType DEF Depth
<1>5. reg["rsp"]' = Base - Depth(pc)' /\ Depth(pc)' \in 0 .. Depth(pc)
    BY <1>1, <1>2, <1>4 DEF FramesInPlace
<1>6. FramesInPlace'
    BY <1>1, <1>2, <1>3, <1>5, FramesFollow
<1>7. TypeOK'
    BY <1>1, <1>2, <1>3, <1>6, TypeFollows
<1> QED BY <1>1, <1>6, <1>7, SameFrames
        DEF FollowsText, Phases, Asking, Answered, RegistersOut, RegistersBack, Resumed

LEMMA CerrorStep == FollowsText /\ Cerror => FollowsText'
<1> SUFFICES ASSUME FollowsText, Cerror
             PROVE  FollowsText'
    OBVIOUS
<1> DEFINE after == AfterC([rax |-> -1, rdx |-> -1])
<1>1. /\ pc = -3 /\ UNCHANGED <<entry, outcome>> /\ pc' = mem[reg["rsp"]]
      /\ mem' = [x \in Stack |-> IF x < reg["rsp"] THEN Scrap ELSE mem[x]]
      /\ reg' = [after EXCEPT !["rsp"] = @ + 1]
    BY Addresses DEF Cerror, Returned
<1>2. /\ TypeOK /\ FramesInPlace /\ mem \in [Stack -> Int] /\ entry \in Start /\ pc \in Where
      /\ reg \in [Register -> Int] /\ Stack \subseteq Int /\ Scrap \in Int
      /\ "rsp" \in Register /\ "rbp" \in Register
    BY TypeParts, RegisterNames, StartAssumption DEF FollowsText
<1>3. after = [r \in Register |-> IF r \in {"rax", "rdx"} THEN -1
                                  ELSE IF r \in {"rbp", "rsp"} THEN reg[r] ELSE Scrap]
    BY DEF AfterC
<1> HIDE DEF after
<1>4. /\ reg' \in [Register -> Int] /\ reg'["rsp"] = reg["rsp"] + 1
      /\ reg'["rbp"] = reg["rbp"] /\ reg'["rax"] = -1 /\ reg'["rdx"] = -1
    BY <1>1, <1>2, <1>3, RegisterNames
<1>5. Depth(pc) = 1
    BY <1>1, Depths
<1>6. pc' = -1 /\ reg["rsp"] = Base - 1 /\ Base \in Int
    BY <1>1, <1>2, <1>5, TopOfStack, Frames
<1>7. Depth(pc)' = 0
    BY <1>6, Depths
<1>8. /\ mem' \in [Stack -> Int] /\ \A x \in Stack : x >= reg["rsp"] => mem'[x] = mem[x]
      /\ pc' \in Where
    BY <1>1, <1>2, <1>6 DEF Where
<1>9. FramesInPlace'
    <2>1. reg["rsp"]' = Base - Depth(pc)' /\ Depth(pc)' \in 0 .. Depth(pc)
        BY <1>4, <1>5, <1>6, <1>7
    <2> QED BY <1>1, <1>2, <1>8, <2>1, Addresses, FramesFollow
<1>10. TypeOK'
    BY <1>1, <1>2, <1>4, <1>8, <1>9, TypeFollows
<1>11. Resumed'
    BY <1>1, <1>4, <1>6, Addresses DEF FollowsText, Resumed, RegistersBack, Phases
<1> QED BY <1>6, <1>9, <1>10, <1>11, Addresses
        DEF FollowsText, Phases, Asking, Answered, RegistersOut, RegistersBack

\* What the C bridge decides changes the block in the three fields that it assigns.
LEMMA Decides ==
    ASSUME FollowsText, UNCHANGED entry, pc = -2, NEW rax, NEW rdx, NEW carry \in 0 .. 1,
           outcome' = [rax |-> rax, rdx |-> rdx, carry |-> carry]
    PROVE  /\ Decided' /\ Base' = Base
           /\ \A d \in 1 .. 4 : Frame(d)' = Frame(d)
           /\ Frame(16)' = rax /\ Frame(13)' = rdx
           /\ Frame(7) = entry["rflags"] /\ Frame(7)' = (Frame(7) \div 2) * 2 + carry
           /\ \A d \in 5 .. 16 \ {7, 13, 16} : Frame(d)' = Frame(d)
<1>1. ~Decided
    BY Addresses DEF FollowsText, Phases, Asking
<1>2. Decided' /\ Base' = Base
    BY DEF Decided, Base
<1>3. \A d \in 1 .. 4 : Frame(d)' = Frame(d)
    BY <1>2 DEF Frame
<1>4. /\ Saved("rax")' = rax /\ Saved("rdx")' = rdx /\ Saved("rflags") = entry["rflags"]
      /\ Saved("rflags")' = (entry["rflags"] \div 2) * 2 + carry
    BY <1>1, <1>2 DEF Saved
<1>5. ASSUME NEW r, r \notin {"rax", "rdx", "rflags"}
      PROVE  Saved(r)' = Saved(r)
    BY <1>2, <1>5 DEF Saved
<1>6. \A d \in 5 .. 16 : /\ Frame(d) = Saved(FieldOrder[17 - d])
                         /\ Frame(d)' = Saved(FieldOrder[17 - d])'
    BY DEF Frame
<1>7. /\ Frame(7) = Saved("rflags") /\ Frame(7)' = Saved("rflags")'
      /\ Frame(13)' = Saved("rdx")' /\ Frame(16)' = Saved("rax")'
    <2>1. 17 - 7 = 10 /\ 17 - 13 = 4 /\ 17 - 16 = 1
        OBVIOUS
    <2>2. 7 \in 5 .. 16 /\ 13 \in 5 .. 16 /\ 16 \in 5 .. 16
        OBVIOUS
    <2> QED BY <1>6, <2>1, <2>2, FieldOrderParts
<1>8. ASSUME NEW d \in 5 .. 16 \ {7, 13, 16}
      PROVE  Frame(d)' = Frame(d)
    <2>1. d \in {5, 6, 8, 9, 10, 11, 12, 14, 15}
        OBVIOUS
    <2>2. FieldOrder[17 - d] \notin {"rax", "rdx", "rflags"}
        BY <2>1, FieldOrderParts
    <2>3. Saved(FieldOrder[17 - d])' = Saved(FieldOrder[17 - d])
        BY <1>5, <2>2
    <2> QED BY <1>6, <2>3
<1> QED BY <1>2, <1>3, <1>4, <1>7, <1>8

LEMMA HandleStep == FollowsText /\ Handle => FollowsText'
<1> SUFFICES ASSUME FollowsText, Handle
             PROVE  FollowsText'
    OBVIOUS
<1>1. PICK rax \in Result, rdx \in Result, carry \in 0 .. 1 :
         /\ outcome' = [rax |-> rax, rdx |-> rdx, carry |-> carry]
         /\ mem' = [x \in Stack |->
                       IF x < reg["rsp"] THEN Scrap
                       ELSE IF x = reg["rdi"] + Offset("rax") THEN rax
                       ELSE IF x = reg["rdi"] + Offset("rdx") THEN rdx
                       ELSE IF x = reg["rdi"] + Offset("rflags")
                       THEN (mem[x] \div 2) * 2 + carry
                       ELSE mem[x]]
    BY DEF Handle
<1>2. pc = -2 /\ UNCHANGED entry /\ Returned(AfterC(<<>>))
    BY Addresses DEF Handle
<1>3. /\ TypeOK /\ FramesInPlace /\ mem \in [Stack -> Int] /\ entry \in Start /\ pc \in Where
      /\ reg \in [Register -> Int] /\ Stack \subseteq Int /\ Scrap \in Int /\ Result \subseteq Int
      /\ "rsp" \in Register /\ "rbp" \in Register /\ Base \in Int
    BY TypeParts, RegisterNames, StartAssumption, StackRoom DEF FollowsText
<1>4. Depth(pc) = 17
    BY <1>2, Depths
<1>5. reg["rsp"] = Base - 17 /\ reg["rdi"] = Base - 16 /\ reg["rbp"] = Base - 4
    BY <1>2, <1>4, Addresses DEF FollowsText, FramesInPlace, RegistersOut
<1>6. Offset("rax") = 0 /\ Offset("rdx") = 3 /\ Offset("rflags") = 9
    BY Offsets, FieldOrderParts
<1>7. mem' = [x \in Stack |-> IF x < Base - 17 THEN Scrap
                              ELSE IF x = Base - 16 THEN rax
                              ELSE IF x = Base - 13 THEN rdx
                              ELSE IF x = Base - 7 THEN (mem[x] \div 2) * 2 + carry
                              ELSE mem[x]]
    BY <1>1, <1>3, <1>5, <1>6
<1>8. mem' \in [Stack -> Int]
    BY <1>3, <1>7
<1>9. pc' = 27
    <2>1. pc' = mem[reg["rsp"]]
        BY <1>2 DEF Returned
    <2>2. mem[reg["rsp"]] = Frame(17)
        BY <1>3, <1>4, TopOfStack
    <2> QED BY <2>1, <2>2, Frames
<1>10. Depth(pc)' = 16 /\ pc' \in Where
    BY <1>9, Depths DEF Where
<1>11. /\ reg' \in [Register -> Int] /\ reg'["rsp"] = Base - 16 /\ reg'["rbp"] = Base - 4
    <2>1. AfterC(<<>>) = [r \in Register |-> IF r \in {"rbp", "rsp"} THEN reg[r] ELSE Scrap]
        BY DEF AfterC
    <2>2. reg' = [AfterC(<<>>) EXCEPT !["rsp"] = @ + 1]
        BY <1>2 DEF Returned
    <2> HIDE DEF AfterC
    <2> QED BY <1>3, <1>5, <2>1, <2>2
<1>12. /\ Decided' /\ Base' = Base
       /\ \A d \in 1 .. 4 : Frame(d)' = Frame(d)
       /\ Frame(16)' = rax /\ Frame(13)' = rdx
       /\ Frame(7)' = (Frame(7) \div 2) * 2 + carry
       /\ \A d \in 5 .. 16 \ {7, 13, 16} : Frame(d)' = Frame(d)
    BY <1>1, <1>2, Decides
<1>13. ASSUME NEW d \in 1 .. 16
       PROVE  mem'[Base - d] = Frame(d)'
    <2>1. Base - d \in Stack /\ mem[Base - d] = Frame(d) /\ d \in Int /\ ~(Base - d < Base - 17)
        BY <1>3, <1>4, StackRoom DEF FramesInPlace
    <2>2. CASE d \in {7, 13, 16}
        BY <1>3, <1>7, <1>12, <2>1, <2>2
    <2>3. CASE d \notin {7, 13, 16}
        <3>1. mem'[Base - d] = mem[Base - d]
            BY <1>3, <1>7, <2>1, <2>3
        <3>2. d \in 1 .. 4 \/ d \in 5 .. 16 \ {7, 13, 16}
            BY <2>3
        <3> QED BY <1>12, <2>1, <3>1, <3>2
    <2> QED BY <2>2, <2>3
<1>14. ASSUME NEW i \in DOMAIN StackArg
       PROVE  mem'[Base + i - 1] = StackArg[i]
    <2>1. Base + i - 1 \in Stack /\ i \in Int /\ i >= 1
        BY <1>3, StackRoom
    <2>2. mem[Base + i - 1] = StackArg[i]
        BY <1>2, <1>3, Addresses DEF FramesInPlace
    <2> QED BY <1>3, <1>7, <2>1, <2>2
<1>15. FramesInPlace'
    BY <1>10, <1>11, <1>12, <1>13, <1>14 DEF FramesInPlace
<1>16. outcome' \in [rax : Int, rdx : Int, carry : -1 .. 1] /\ entry' \in Start
    BY <1>1, <1>2, <1>3
<1>17. reg'["rsp"] \in Stack
    BY <1>3, <1>11, StackRoom
<1>18. TypeOK'
    BY <1>8, <1>9, <1>11, <1>16, <1>17, TextParts, Addresses DEF TypeOK
<1> QED BY <1>9, <1>11, <1>12, <1>15, <1>18, Addresses
        DEF FollowsText, Phases, Asking, Answered, RegistersOut, RegistersBack, Resumed

LEMMA CallStubStep == FollowsText /\ CallStub => FollowsText'
<1> SUFFICES ASSUME FollowsText, CallStub
             PROVE  FollowsText'
    OBVIOUS
<1>1. PICK s \in Start :
         /\ entry' = s
         /\ reg' = [s EXCEPT !["rsp"] = s["rsp"] - 1]
         /\ mem' = [x \in Stack |->
                       IF x = s["rsp"] - 1 THEN PROGRAM
                       ELSE IF x - s["rsp"] + 1 \in DOMAIN StackArg
                       THEN StackArg[x - s["rsp"] + 1]
                       ELSE mem[x]]
    BY DEF CallStub
<1>2. pc' = 1 /\ outcome' = NoOutcome
    BY DEF CallStub
<1>3. /\ mem \in [Stack -> Int] /\ Stack \subseteq Int /\ "rsp" \in Register
      /\ s \in [Register -> Int] /\ s["rsp"] \in Int /\ Base' = s["rsp"]
    BY <1>1, TypeParts, RegisterNames, StartAssumption DEF FollowsText, Base
<1>4. /\ \A d \in 0 .. 17 : s["rsp"] - d \in Stack
      /\ \A i \in DOMAIN StackArg : s["rsp"] + i - 1 \in Stack /\ i \in Int /\ i >= 1
      /\ \A i \in DOMAIN StackArg : StackArg[i] \in Int
    <2>1. s["rsp"] - 17 .. s["rsp"] + Len(StackArg) \subseteq Stack
        BY StartAssumption DEF Deepest
    <2>2. /\ Len(StackArg) \in Nat /\ DOMAIN StackArg = 1 .. Len(StackArg)
          /\ \A i \in DOMAIN StackArg : StackArg[i] \in Int
        BY StartAssumption
    <2>3. \A d \in 0 .. 17 : s["rsp"] - d \in Stack
        BY <1>3, <2>1, <2>2
    <2>4. \A i \in DOMAIN StackArg : s["rsp"] + i - 1 \in Stack /\ i \in Int /\ i >= 1
        BY <1>3, <2>1, <2>2
    <2> QED BY <2>2, <2>3, <2>4
<1>5. /\ reg' \in [Register -> Int] /\ reg'["rsp"] = s["rsp"] - 1
      /\ \A r \in Register \ {"rsp"} : reg'[r] = s[r]
    BY <1>1, <1>3
<1>6. mem' \in [Stack -> Int]
    BY <1>1, <1>3, <1>4, Addresses
<1>7. Depth(pc)' = 1
    BY <1>2, Depths
<1>8. Frame(1)' = -1
    BY Addresses DEF Frame
<1>9. mem'[s["rsp"] - 1] = -1
    <2>1. s["rsp"] - 1 \in Stack
        BY <1>4
    <2> QED BY <1>1, <2>1, Addresses
<1>10. ASSUME NEW i \in DOMAIN StackArg
       PROVE  mem'[s["rsp"] + i - 1] = StackArg[i]
    <2>1. s["rsp"] + i - 1 \in Stack /\ i \in Int /\ i >= 1
        BY <1>4
    <2>2. (s["rsp"] + i - 1) - s["rsp"] + 1 = i /\ s["rsp"] + i - 1 # s["rsp"] - 1
        BY <1>3, <2>1
    <2> QED BY <1>1, <2>1, <2>2
<1>11. FramesInPlace'
    <2>1. \A d \in 1 .. Depth(pc)' : d = 1
        BY <1>7
    <2> QED BY <1>3, <1>5, <1>7, <1>8, <1>9, <1>10, <2>1 DEF FramesInPlace
<1>12. ~Decided'
    BY <1>2 DEF NoOutcome, Decided
<1>13. outcome' \in [rax : Int, rdx : Int, carry : -1 .. 1]
    BY <1>2 DEF NoOutcome
<1>14. reg'["rsp"] \in Stack
    BY <1>4, <1>5
<1>15. TypeOK'
    BY <1>1, <1>2, <1>5, <1>6, <1>13, <1>14, TextParts DEF TypeOK
<1>16. RegistersOut'
    BY <1>1, <1>2, <1>5, RegisterNames, Addresses DEF RegistersOut
<1> QED BY <1>2, <1>11, <1>12, <1>15, <1>16, Addresses
        DEF FollowsText, Phases, Asking, Answered, RegistersBack, Resumed

LEMMA InitFollows == Init => FollowsText
<1> SUFFICES ASSUME Init
             PROVE  FollowsText
    OBVIOUS
<1>1. /\ reg \in Start /\ entry = reg /\ mem = [x \in Stack |-> Scrap] /\ pc = -1
      /\ outcome = [rax |-> 0, rdx |-> 0, carry |-> -1]
    BY Addresses DEF Init, NoOutcome
<1>2. /\ reg \in [Register -> Int] /\ "rsp" \in Register /\ Scrap \in Int
      /\ Base \in Int /\ Base = reg["rsp"] /\ Base - 0 \in Stack
    BY <1>1, StartAssumption, RegisterNames, StackRoom DEF Base
<1>3. TypeOK
    BY <1>1, <1>2, Addresses DEF TypeOK
<1>4. ~Decided
    BY <1>1 DEF Decided
<1>5. Depth(pc) = 0
    BY <1>1, Depths
<1>6. FramesInPlace
    BY <1>1, <1>2, <1>4, <1>5, Addresses DEF FramesInPlace
<1> QED BY <1>1, <1>3, <1>4, <1>6, Addresses
        DEF FollowsText, Phases, Asking, Answered, RegistersOut, RegistersBack, Resumed

LEMMA StutterFollows == FollowsText /\ UNCHANGED vars => FollowsText'
<1> SUFFICES ASSUME FollowsText, UNCHANGED vars
             PROVE  FollowsText'
    OBVIOUS
<1>1. UNCHANGED <<reg, mem, pc, entry, outcome>>
    BY DEF vars
<1>2. TypeOK'
    BY <1>1 DEF FollowsText, TypeOK
<1>3. FramesInPlace'
    <2>1. /\ Depth(pc)' = Depth(pc) /\ Base' = Base /\ Decided' = Decided
          /\ \A d : Frame(d)' = Frame(d)
        BY <1>1, SameFrames DEF Depth
    <2> QED BY <1>1, <2>1 DEF FollowsText, FramesInPlace
<1> QED BY <1>1, <1>2, <1>3, SameFrames
        DEF FollowsText, Phases, Asking, Answered, RegistersOut, RegistersBack, Resumed

LEMMA StepFollows == FollowsText /\ [Next]_vars => FollowsText'
<1> SUFFICES ASSUME FollowsText, [Next]_vars
             PROVE  FollowsText'
    OBVIOUS
<1>1. CASE CallStub
    BY <1>1, CallStubStep
<1>2. CASE Execute
    <2>1. UNCHANGED <<entry, outcome>>
        BY <1>2 DEF Execute
    <2>2. DoPush \/ DoPop \/ DoMov \/ LoadSysnum \/ DoCall \/ DoRet \/ Jump
        BY <1>2 DEF Execute
    <2> QED BY <2>1, <2>2, PushStep, PopStep, MovStep, LoadStep, CallStep, RetStep, JumpStep
<1>3. CASE Handle
    BY <1>3, HandleStep
<1>4. CASE Cerror
    BY <1>4, CerrorStep
<1>5. CASE Signal
    BY <1>5, SignalStep
<1>6. CASE UNCHANGED vars
    BY <1>6, StutterFollows
<1> QED BY <1>1, <1>2, <1>3, <1>4, <1>5, <1>6 DEF Next

LEMMA AlwaysFollows == Spec => []FollowsText
BY InitFollows, StepFollows, PTL DEF Spec

-----------------------------------------------------------------------------
(***************************************************************************)
(* The theorems.                                                           *)
(***************************************************************************)
\* Control never leaves the text and the three places that it calls, and the stack pointer
\* never leaves the stack: each ret of syscall_asmbridge.S and of the stub takes the word
\* that a call has left, whatever the C code and the signal handlers do below.
THEOREM BridgeTypeOK == Spec => []TypeOK
<1>1. FollowsText => TypeOK
    BY DEF FollowsText
<1> QED BY <1>1, AlwaysFollows, PTL

\* The C bridge and darling_cerror are entered with the stack as their compiler assumes it,
\* from every stack that the program may have.
THEOREM BridgeAligned == Spec => []AlignedCalls
<1>1. ASSUME FollowsText, pc \in {Address("handler"), Address("cerror")}
      PROVE  (reg["rsp"] + 1) % 2 = 0
    <2>1. Base \in Int /\ Base % 2 = 0
        BY <1>1, TypeParts, StackRoom DEF FollowsText
    <2>2. Depth(pc) \in {1, 17}
        BY <1>1, Addresses, Depths
    <2>3. reg["rsp"] + 1 = Base \/ reg["rsp"] + 1 = Base - 16
        BY <1>1, <2>1, <2>2 DEF FollowsText, FramesInPlace
    <2> QED BY <2>1, <2>3
<1>2. FollowsText => AlignedCalls
    BY <1>1 DEF AlignedCalls
<1> QED BY <1>2, AlwaysFollows, PTL

\* A call of the stub is, to its caller, a call of a C function: it comes back with the
\* frame and the arguments on the stack as they were and with the C bridge's result, or
\* with -1 through darling_cerror if and only if the C bridge has set CF.
THEOREM BridgeResumes == Spec => []ProgramResumes
<1>1. ASSUME FollowsText, pc = PROGRAM, Decided
      PROVE  /\ reg["rsp"] = entry["rsp"] /\ reg["rbp"] = entry["rbp"]
             /\ \A i \in DOMAIN StackArg : mem[entry["rsp"] + i - 1] = StackArg[i]
             /\ <<reg["rax"], reg["rdx"]>> =
                     IF outcome.carry = 1 THEN <<-1, -1>> ELSE <<outcome.rax, outcome.rdx>>
    <2>1. Base \in Int /\ Depth(pc) = 0 /\ outcome.carry \in 0 .. 1
        <3>1. entry \in Start /\ outcome.carry \in -1 .. 1
            BY <1>1, TypeParts DEF FollowsText
        <3>2. outcome.carry \in 0 .. 1
            BY <1>1, <3>1 DEF Decided
        <3>3. Depth(pc) = 0
            BY <1>1, Depths, Addresses
        <3> QED BY <3>1, <3>2, <3>3, StackRoom
    <2>2. reg["rsp"] = Base
        BY <1>1, <2>1 DEF FollowsText, FramesInPlace
    <2>3. /\ reg["rbp"] = entry["rbp"]
          /\ outcome.carry = 1 => reg["rax"] = -1 /\ reg["rdx"] = -1
          /\ outcome.carry = 0 => reg["rax"] = outcome.rax /\ reg["rdx"] = outcome.rdx
        BY <1>1, RegisterNames DEF FollowsText, Resumed, Saved
    <2>4. \A i \in DOMAIN StackArg : mem[Base + i - 1] = StackArg[i]
        BY <1>1 DEF FollowsText, FramesInPlace
    <2> QED BY <2>1, <2>2, <2>3, <2>4 DEF Base
<1>2. ASSUME FollowsText, pc = Address("cerror")
      PROVE  outcome.carry = 1 /\ reg["rdi"] = outcome.rax
    BY <1>2 DEF FollowsText, Phases, RegistersBack
<1>3. FollowsText => ProgramResumes
    BY <1>1, <1>2 DEF ProgramResumes
<1> QED BY <1>3, AlwaysFollows, PTL

\* A system call that succeeds leaves its caller every register but those of its result and
\* r10, and every flag but the carry: what doc/motivation.md asks of the design.
THEOREM BridgePreserves == Spec => []ScratchPreserved
<1>1. ASSUME FollowsText, pc = PROGRAM, Decided, outcome.carry = 0
      PROVE  /\ \A r \in {"rdi", "rsi", "rcx", "r8", "r9", "r11"} : reg[r] = entry[r]
             /\ reg["r10"] = entry["rcx"]
             /\ reg["rflags"] \div 2 = entry["rflags"] \div 2
    <2>1. \A r \in Register \ {"rbp", "rsp"} : reg[r] = Saved(r)
        BY <1>1 DEF FollowsText, Resumed
    <2>2. \A r \in {"rdi", "rsi", "rcx", "r8", "r9", "r11"} : Saved(r) = entry[r]
        BY DEF Saved
    <2>3. Saved("r10") = entry["rcx"] /\ Saved("rflags") = (entry["rflags"] \div 2) * 2 + 0
        BY <1>1 DEF Saved
    <2>4. entry["rflags"] \in Int
        BY <1>1, TypeParts, RegisterNames, StartAssumption DEF FollowsText
    <2>5. reg["rflags"] = (entry["rflags"] \div 2) * 2
        BY <2>1, <2>3, <2>4, RegisterNames
    <2> QED BY <2>1, <2>2, <2>3, <2>4, <2>5, RegisterNames
<1>2. FollowsText => ScratchPreserved
    BY <1>1 DEF ScratchPreserved
<1> QED BY <1>2, AlwaysFollows, PTL

\* At the C bridge the block on the stack has the frame's words in its fields.
LEMMA BlockInPlace ==
    ASSUME FollowsText, pc = -2
    PROVE  /\ \A i \in 1 .. 12 :
                  mem[reg["rdi"] + Offset(FieldOrder[i])] = Saved(FieldOrder[i])
           /\ ~Decided /\ Base \in Int
           /\ \A i \in DOMAIN StackArg : mem[Base + i - 1] = StackArg[i]
<1>1. Depth(pc) = 17 /\ reg["rdi"] = Base - 16 /\ ~Decided /\ Base \in Int
    BY Depths, TypeParts, StackRoom, Addresses DEF FollowsText, RegistersOut, Phases, Asking
<1>2. \A i \in DOMAIN StackArg : mem[Base + i - 1] = StackArg[i]
    BY Addresses DEF FollowsText, FramesInPlace
<1>3. ASSUME NEW i \in 1 .. 12
      PROVE  mem[reg["rdi"] + Offset(FieldOrder[i])] = Saved(FieldOrder[i])
    <2>1. reg["rdi"] + Offset(FieldOrder[i]) = Base - (17 - i)
        BY <1>1, Offsets
    <2>2. 17 - i \in 5 .. 16 /\ 17 - (17 - i) = i
        OBVIOUS
    <2>3. mem[Base - (17 - i)] = Frame(17 - i)
        BY <1>1, <2>2 DEF FollowsText, FramesInPlace
    <2>4. Frame(17 - i) = Saved(FieldOrder[17 - (17 - i)])
        BY <2>2, Frames
    <2> QED BY <2>1, <2>2, <2>3, <2>4
<1> QED BY <1>1, <1>2, <1>3

\* The C arguments as the C bridge's model counts them.
LEMMA ArgumentParts ==
    /\ DOMAIN CArguments = 1 .. 6 + Len(StackArg) /\ Len(StackArg) \in Nat
    /\ CArguments[1] = AsWord(entry["rdi"]) /\ CArguments[2] = AsWord(entry["rsi"])
    /\ CArguments[3] = AsWord(entry["rdx"]) /\ CArguments[4] = AsWord(entry["rcx"])
    /\ CArguments[5] = AsWord(entry["r8"]) /\ CArguments[6] = AsWord(entry["r9"])
    /\ \A i \in 7 .. 6 + Len(StackArg) : CArguments[i] = AsWord(StackArg[i - 6])
<1>1. Len(StackArg) \in Nat /\ DOMAIN CArguments = 1 .. 6 + Len(StackArg)
    BY StartAssumption DEF CArguments
<1>2. \A i \in 1 .. 6 :
         CArguments[i] = AsWord(entry[<<"rdi", "rsi", "rdx", "rcx", "r8", "r9">>[i]])
    BY <1>1 DEF CArguments
<1>3. \A i \in 7 .. 6 + Len(StackArg) : CArguments[i] = AsWord(StackArg[i - 6])
    BY <1>1 DEF CArguments
<1>4. /\ CArguments[1] = AsWord(entry["rdi"]) /\ CArguments[2] = AsWord(entry["rsi"])
      /\ CArguments[3] = AsWord(entry["rdx"]) /\ CArguments[4] = AsWord(entry["rcx"])
      /\ CArguments[5] = AsWord(entry["r8"]) /\ CArguments[6] = AsWord(entry["r9"])
    BY <1>2
<1> QED BY <1>1, <1>3, <1>4

\* The words above the saved rsp are where rsp_ptr of syscall_cbridge.c looks for them.
LEMMA ArgumentsAbove ==
    ASSUME FollowsText, pc = -2, NEW i \in 4 .. 4 + Len(StackArg) - 1
    PROVE  AsWord(mem[mem[reg["rdi"] + Offset("rsp")] + i]) = C!StackWord(CArguments, i)
<1>1. Len(StackArg) \in Nat /\ DOMAIN StackArg = 1 .. Len(StackArg)
    BY StartAssumption
<1>2. mem[reg["rdi"] + Offset("rsp")] = Base - 4 /\ Base \in Int
    <2>1. mem[reg["rdi"] + Offset(FieldOrder[12])] = Saved(FieldOrder[12]) /\ Base \in Int
        BY BlockInPlace
    <2>2. Saved("rsp") = Base - 4
        BY DEF Saved
    <2> QED BY <2>1, <2>2, FieldOrderParts
<1>3. /\ i - 3 \in DOMAIN StackArg /\ (Base - 4) + i = Base + (i - 3) - 1
      /\ ~(i < 4) /\ 7 + (i - 4) \in 7 .. 6 + Len(StackArg) /\ (7 + (i - 4)) - 6 = i - 3
    BY <1>1, <1>2
<1>4. mem[(Base - 4) + i] = StackArg[i - 3]
    BY <1>3, BlockInPlace
<1>5. C!StackWord(CArguments, i) = CArguments[7 + (i - 4)]
    BY <1>1, <1>3, ArgumentParts DEF C!StackWord, C!CArg
<1>6. CArguments[7 + (i - 4)] = AsWord(StackArg[(7 + (i - 4)) - 6])
    BY <1>3, ArgumentParts
<1> QED BY <1>2, <1>3, <1>4, <1>5, <1>6

\* What syscall_asmbridge.S hands to _darling_handle_x86_64_syscall is what the C code takes
\* for granted: the registers of the trap in the fields of darling_register_x86_64_t and the
\* caller's stack arguments rsp_ptr words above the saved rsp.  With it the C model's reading
\* of arguments rests on the assembly and not on an assumption.
THEOREM BridgeHandsOver == Spec => []HandsOver
<1>1. ASSUME FollowsText, pc = Address("handler")
      PROVE  LET field(f) == mem[reg["rdi"] + Offset(f)]
                 block == [f \in Register \ {"rflags", "rbp", "rsp"} |-> AsWord(field(f))]
             IN  /\ block = [C!EntryRegs(Sysnum, CArguments)
                                 EXCEPT !.r11 = AsWord(entry["r11"])]
                 /\ field("rflags") = entry["rflags"]
                 /\ \A i \in C!rsp_ptr .. C!rsp_ptr + Len(StackArg) - 1 :
                         AsWord(mem[field("rsp") + i]) = C!StackWord(CArguments, i)
    <2> DEFINE field(f) == mem[reg["rdi"] + Offset(f)]
               block == [f \in Register \ {"rflags", "rbp", "rsp"} |-> AsWord(field(f))]
    <2>1. pc = -2
        BY <1>1, Addresses
    <2>2. \A f \in Register : field(f) = Saved(f)
        <3> SUFFICES ASSUME NEW f \in Register
                     PROVE  field(f) = Saved(f)
            OBVIOUS
        <3>1. PICK i \in 1 .. 12 : f = FieldOrder[i]
            BY FieldOrderParts DEF Register
        <3> QED BY <1>1, <2>1, <3>1, BlockInPlace
    <2>3. /\ ~Decided /\ field("rflags") = entry["rflags"]
        BY <1>1, <2>1, <2>2, BlockInPlace, RegisterNames DEF Saved
    <2> HIDE DEF field
    <2>4. /\ field("rax") = Sysnum /\ field("rdi") = entry["rdi"] /\ field("rsi") = entry["rsi"]
          /\ field("rdx") = entry["rdx"] /\ field("rcx") = entry["rcx"]
          /\ field("r8") = entry["r8"] /\ field("r9") = entry["r9"]
          /\ field("r10") = entry["rcx"] /\ field("r11") = entry["r11"]
        BY <2>2, <2>3, RegisterNames DEF Saved
    <2>5. block = [C!EntryRegs(Sysnum, CArguments) EXCEPT !.r11 = AsWord(entry["r11"])]
        <3>1. C!EntryRegs(Sysnum, CArguments) =
                 [rax |-> AsWord(Sysnum),      rdi |-> CArguments[1], rsi |-> CArguments[2],
                  rdx |-> CArguments[3],       rcx |-> CArguments[4], r8  |-> CArguments[5],
                  r9  |-> CArguments[6],       r10 |-> CArguments[4], r11 |-> AsWord(Scrap)]
            BY ArgumentParts DEF C!EntryRegs, C!CArg, C!ZeroExtend, AsWord
        <3>2. [C!EntryRegs(Sysnum, CArguments) EXCEPT !.r11 = AsWord(entry["r11"])] =
                 [rax |-> AsWord(Sysnum),       rdi |-> AsWord(entry["rdi"]),
                  rsi |-> AsWord(entry["rsi"]), rdx |-> AsWord(entry["rdx"]),
                  rcx |-> AsWord(entry["rcx"]), r8  |-> AsWord(entry["r8"]),
                  r9  |-> AsWord(entry["r9"]),  r10 |-> AsWord(entry["rcx"]),
                  r11 |-> AsWord(entry["r11"])]
            BY <3>1, ArgumentParts
        <3> HIDE DEF C!EntryRegs
        <3>3. Register \ {"rflags", "rbp", "rsp"} =
                 {"rax", "rdi", "rsi", "rdx", "rcx", "r8", "r9", "r10", "r11"}
            BY RegisterNames
        <3>4. block = [f \in {"rax", "rdi", "rsi", "rdx", "rcx", "r8", "r9", "r10", "r11"} |->
                          AsWord(field(f))]
            BY <3>3
        <3> QED BY <2>4, <3>2, <3>4
    <2>6. ASSUME NEW i \in C!rsp_ptr .. C!rsp_ptr + Len(StackArg) - 1
          PROVE  AsWord(mem[field("rsp") + i]) = C!StackWord(CArguments, i)
        <3>1. C!rsp_ptr = 4
            BY DEF C!rsp_ptr
        <3>2. i \in 4 .. 4 + Len(StackArg) - 1
            BY <3>1
        <3> QED BY <1>1, <2>1, <3>2, ArgumentsAbove DEF field
    <2> QED BY <2>3, <2>5, <2>6 DEF field
<1>2. FollowsText => HandsOver
    BY <1>1 DEF HandsOver
<1> QED BY <1>2, AlwaysFollows, PTL
=============================================================================
