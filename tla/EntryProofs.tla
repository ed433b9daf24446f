----------------------------- MODULE EntryProofs -----------------------------
(***************************************************************************)
(* The way into an interrupt and out of it leaves no trace, for any set of *)
(* vectors, any addresses of the stubs and any depth of nesting.           *)
(***************************************************************************)
EXTENDS Entry, SequenceTheorems, TLAPS

(* A number is its quotient and remainder, which are unique.               *)
LEMMA Division ==
  \A a \in Nat, b \in Nat \ {0} :
     /\ a \div b \in Nat /\ a % b \in 0 .. b - 1
     /\ a = b * (a \div b) + (a % b)
OBVIOUS

(* The quotient is the one with a remainder below the divisor.             *)
LEMMA QuotientUnique ==
  ASSUME NEW a \in Nat, NEW b \in Nat \ {0}, NEW q \in Nat, NEW r \in 0 .. b - 1,
         a = b * q + r
  PROVE  a \div b = q
<1> DEFINE p == a \div b
<1>1. p \in Nat /\ a % b \in 0 .. b - 1 /\ a = b * p + (a % b)
  BY Division
<1> HIDE DEF p
<1>2. b * (p - q) < b /\ b * (q - p) < b
  BY <1>1
<1>3. p - q < 1 /\ q - p < 1
  BY <1>1, <1>2
<1> QED
  BY <1>1, <1>3 DEF p

(* Shifting the parts of an address together.                              *)
LEMMA Distribute ==
  \A q, c, x \in Nat : q * (q * c + x) = (q * q) * c + q * x
OBVIOUS

(* The CPU puts together the address idt_set_descriptor took apart.        *)
LEMMA AddressOfGate ==
  ASSUME NEW isr \in 0 .. Half * Half - 1
  PROVE  Address(Gate(isr)) = isr
<1> DEFINE b == isr \div Quarter
           c == b \div Quarter
<1>1. Quarter \in Nat \ {0} /\ Half \in Nat \ {0} /\ isr \in Nat
  BY EntryAssumption DEF Half
<1>2. b \in Nat /\ isr % Quarter \in 0 .. Quarter - 1 /\ isr = Quarter * b + (isr % Quarter)
  BY <1>1, Division
<1>3. c \in Nat /\ b % Quarter \in 0 .. Quarter - 1 /\ b = Quarter * c + (b % Quarter)
  BY <1>1, <1>2, Division
<1> HIDE DEF b, c
<1> DEFINE r == Quarter * (b % Quarter) + (isr % Quarter)
<1>4. isr = Half * c + r
  <2>1. Quarter * b = Half * c + Quarter * (b % Quarter)
    BY <1>1, <1>3, Distribute DEF Half
  <2> QED
    BY <1>1, <1>2, <1>3, <2>1
<1>5. r \in 0 .. Half - 1
  BY <1>1, <1>2, <1>3 DEF Half
<1> HIDE DEF r
<1>6. isr \div Half = c
  BY <1>1, <1>3, <1>4, <1>5, QuotientUnique
<1>7. c < Half
  BY <1>1, <1>3, <1>4, <1>5
<1>8. c % Half = c
  BY <1>1, <1>3, <1>7
<1> QED
  <2>1. /\ Gate(isr).isr_low = isr % Quarter
        /\ Gate(isr).isr_mid = b % Quarter
        /\ Gate(isr).isr_high = c
    BY <1>6, <1>8, Zenon DEF Gate, b
  <2>2. Address(Gate(isr)) = (isr % Quarter) + Quarter * (b % Quarter) + Half * c
    BY <2>1, Zenon DEF Address
  <2> QED
    BY <1>1, <1>2, <1>3, <1>4, <2>2 DEF r

(* So the gate of a vector leads to the stub of that vector.               *)
LEMMA GateLeadsToStub ==
  ASSUME NEW v \in Vectors
  PROVE  /\ StubAt(Address(Idt(v))) = v
         /\ Idt(v).attributes = {"present", "interrupt"}
<1>1. v <= 48
  BY EntryAssumption DEF Vectors
<1>2. Idt(v) = Gate(StubAddress[v])
  BY <1>1 DEF Idt
<1>3. Address(Idt(v)) = StubAddress[v]
  BY <1>2, AddressOfGate, EntryAssumption
<1>4. \A u \in Vectors : StubAddress[u] = StubAddress[v] => u = v
  BY EntryAssumption DEF IsInjective
<1> QED
  BY <1>2, <1>3, <1>4 DEF StubAt, Gate

---------------------------------------------------------------------------
(* The code of a vector, by the distance from the end of its stub.         *)
StubLength(v) == IF v \in ErrorCodeHandlers THEN 1 ELSE 2

Instruction ==
  {Push(w) : w \in Nat} \union {PushReg(reg) : reg \in Registers}
    \union {Pop(reg) : reg \in Registers} \union {Plain(op) : op \in {"cld", "call", "add", "iretq"}}

(* The first and the second part of a concatenation.                       *)
LEMMA ConcatFacts ==
  ASSUME NEW S, NEW s \in Seq(S), NEW t \in Seq(S)
  PROVE  /\ s \o t \in Seq(S) /\ Len(s \o t) = Len(s) + Len(t)
         /\ \A i \in 1 .. Len(s) : (s \o t)[i] = s[i]
         /\ \A i \in 1 .. Len(t) : (s \o t)[Len(s) + i] = t[i]
OBVIOUS

(* A function on 1 .. n is a sequence of length n.                         *)
LEMMA FunctionIsSeq ==
  ASSUME NEW S, NEW n \in Nat, NEW f \in [1 .. n -> S]
  PROVE  f \in Seq(S) /\ Len(f) = n
BY SeqDef, LenProperties

(* Vectors are numbers.                                                    *)
LEMMA VectorNat ==
  Vectors \subseteq Nat
BY EntryAssumption DEF Vectors

(* A stub pushes an error code, unless the CPU did, and its vector.        *)
LEMMA StubFacts ==
  ASSUME NEW v \in Vectors
  PROVE  /\ Stub(v) \in Seq(Instruction) /\ Len(Stub(v)) = StubLength(v)
         /\ Stub(v)[StubLength(v)] = Push(v)
         /\ v \notin ErrorCodeHandlers => Stub(v)[1] = Push(0)
<1>1. Push(v) \in Instruction /\ Push(0) \in Instruction
  BY VectorNat DEF Instruction
<1> QED
  BY <1>1 DEF Stub, StubLength

(* The pops take the registers in the opposite order of the pushes.        *)
LEMMA OrderFacts ==
  \A n \in 1 .. 15 : Pushed[n] \in Registers /\ Popped[n] = Pushed[16 - n]
<1>1. SUFFICES ASSUME NEW n \in 1 .. 15
               PROVE  Pushed[n] \in Registers /\ Popped[n] = Pushed[16 - n]
  OBVIOUS
<1>2. DOMAIN Pushed = 1 .. 15
  BY DEF Pushed
<1>3. Pushed[n] \in Registers
  BY <1>2 DEF Registers, Range
<1>5. \/ n = 1 \/ n = 2 \/ n = 3 \/ n = 4 \/ n = 5 \/ n = 6 \/ n = 7 \/ n = 8
      \/ n = 9 \/ n = 10 \/ n = 11 \/ n = 12 \/ n = 13 \/ n = 14 \/ n = 15
  OBVIOUS
<1>6. Popped[n] = Pushed[16 - n]
  BY <1>5 DEF Popped, Pushed
<1> QED
  BY <1>3, <1>6

(* common_interrupt_handler, instruction by instruction.                   *)
LEMMA CommonFacts ==
  /\ Common \in Seq(Instruction) /\ Len(Common) = 34
  /\ \A n \in 1 .. 15 : Common[n] = PushReg(Pushed[n])
  /\ Common[16] = Plain("cld") /\ Common[17] = Plain("call")
  /\ \A n \in 1 .. 15 : Common[17 + n] = Pop(Popped[n])
  /\ Common[33] = Plain("add") /\ Common[34] = Plain("iretq")
<1> DEFINE a == [n \in 1 .. 15 |-> PushReg(Pushed[n])]
           b == <<Plain("cld"), Plain("call")>>
           c == [n \in 1 .. 15 |-> Pop(Popped[n])]
           d == <<Plain("add"), Plain("iretq")>>
           ab == a \o b
           abc == ab \o c
<1>1. \A n \in 1 .. 15 : PushReg(Pushed[n]) \in Instruction /\ Pop(Popped[n]) \in Instruction
  <2>1. \A n \in 1 .. 15 : Pushed[n] \in Registers /\ Popped[n] \in Registers
    <3>1. \A n \in 1 .. 15 : 16 - n \in 1 .. 15
      OBVIOUS
    <3> QED
      BY <3>1, OrderFacts
  <2> QED
    BY <2>1 DEF Instruction
<1>2. /\ a \in Seq(Instruction) /\ b \in Seq(Instruction)
      /\ c \in Seq(Instruction) /\ d \in Seq(Instruction)
  <2>1. a \in [1 .. 15 -> Instruction] /\ c \in [1 .. 15 -> Instruction]
    BY <1>1
  <2>2. \A op \in {"cld", "call", "add", "iretq"} : Plain(op) \in Instruction
    BY DEF Instruction
  <2> QED
    BY <2>1, <2>2, SeqDef
<1>3. /\ Len(a) = 15 /\ Len(b) = 2 /\ Len(c) = 15 /\ Len(d) = 2
      /\ b[1] = Plain("cld") /\ b[2] = Plain("call")
      /\ d[1] = Plain("add") /\ d[2] = Plain("iretq")
      /\ \A n \in 1 .. 15 : a[n] = PushReg(Pushed[n]) /\ c[n] = Pop(Popped[n])
  OBVIOUS
<1>4. Common = abc \o d
  BY DEF Common
<1> HIDE DEF a, b, c, d
<1>5. /\ ab \in Seq(Instruction) /\ Len(ab) = Len(a) + Len(b)
      /\ \A n \in 1 .. Len(a) : ab[n] = a[n]
      /\ \A n \in 1 .. Len(b) : ab[Len(a) + n] = b[n]
  BY <1>2, ConcatFacts
<1>5b. ab \in Seq(Instruction) /\ c \in Seq(Instruction)
  BY <1>2, <1>5
<1> HIDE DEF ab
<1>6. /\ abc \in Seq(Instruction) /\ Len(abc) = Len(ab) + Len(c)
      /\ \A n \in 1 .. Len(ab) : abc[n] = ab[n]
      /\ \A n \in 1 .. Len(c) : abc[Len(ab) + n] = c[n]
  BY <1>5b, ConcatFacts
<1>6b. abc \in Seq(Instruction) /\ d \in Seq(Instruction)
  BY <1>2, <1>6
<1> HIDE DEF abc
<1>7. /\ Common \in Seq(Instruction) /\ Len(Common) = Len(abc) + Len(d)
      /\ \A n \in 1 .. Len(abc) : Common[n] = abc[n]
      /\ \A n \in 1 .. Len(d) : Common[Len(abc) + n] = d[n]
  BY <1>4, <1>6b, ConcatFacts
<1>8. /\ Len(ab) = 17 /\ ab[16] = b[1] /\ ab[17] = b[2]
      /\ \A n \in 1 .. 15 : ab[n] = a[n]
  BY <1>3, <1>5
<1>9. /\ Len(abc) = 32
      /\ \A n \in 1 .. 17 : abc[n] = ab[n]
      /\ \A n \in 1 .. 15 : abc[17 + n] = c[n]
  BY <1>3, <1>6, <1>8
<1>10. /\ Len(Common) = 34 /\ Common[33] = d[1] /\ Common[34] = d[2]
       /\ \A n \in 1 .. 32 : Common[n] = abc[n]
  BY <1>3, <1>7, <1>9
<1>11. \A n \in 1 .. 15 : 17 + n \in 1 .. 32
  OBVIOUS
<1> QED
  BY <1>3, <1>7, <1>8, <1>9, <1>10, <1>11

(* A stub followed by it.                                                  *)
LEMMA CodeFacts ==
  ASSUME NEW v \in Vectors
  PROVE  /\ DOMAIN Code(v) = 1 .. StubLength(v) + 34
         /\ v \notin ErrorCodeHandlers => Code(v)[1] = Push(0)
         /\ Code(v)[StubLength(v)] = Push(v)
         /\ \A n \in 1 .. 15 : Code(v)[StubLength(v) + n] = PushReg(Pushed[n])
         /\ Code(v)[StubLength(v) + 16] = Plain("cld")
         /\ Code(v)[StubLength(v) + 17] = Plain("call")
         /\ \A n \in 1 .. 15 : Code(v)[StubLength(v) + 17 + n] = Pop(Popped[n])
         /\ Code(v)[StubLength(v) + 33] = Plain("add")
         /\ Code(v)[StubLength(v) + 34] = Plain("iretq")
<1> DEFINE k == StubLength(v)
           s == Stub(v)
           code == Code(v)
<1>1. k \in {1, 2} /\ (v \notin ErrorCodeHandlers => k = 2)
  BY DEF StubLength
<1>2. /\ s \in Seq(Instruction) /\ Len(s) = k
      /\ s[k] = Push(v)
      /\ v \notin ErrorCodeHandlers => s[1] = Push(0)
  BY StubFacts
<1>3. Common \in Seq(Instruction) /\ Stub(v) \in Seq(Instruction)
  BY CommonFacts, StubFacts
<1>4. /\ code \in Seq(Instruction) /\ Len(code) = Len(s) + Len(Common)
      /\ \A n \in 1 .. Len(s) : code[n] = s[n]
      /\ \A n \in 1 .. Len(Common) : code[Len(s) + n] = Common[n]
  BY <1>3, ConcatFacts DEF Code
<1> HIDE DEF k, s, code
<1>5. /\ Len(code) = k + 34
      /\ \A n \in 1 .. k : code[n] = s[n]
      /\ \A n \in 1 .. 34 : code[k + n] = Common[n]
  BY <1>1, <1>2, <1>4, CommonFacts
<1>6. \A n \in 1 .. 15 : n \in 1 .. 34 /\ 17 + n \in 1 .. 34 /\ k + (17 + n) = k + 17 + n
  BY <1>1
<1>7. \A n \in 1 .. 15 : code[k + 17 + n] = Common[17 + n]
  BY <1>5, <1>6
<1>8. DOMAIN code = 1 .. k + 34
  BY <1>4, <1>5
<1>9. /\ v \notin ErrorCodeHandlers => code[1] = Push(0)
      /\ code[k] = Push(v)
      /\ \A n \in 1 .. 15 : code[k + n] = PushReg(Pushed[n])
      /\ code[k + 16] = Plain("cld") /\ code[k + 17] = Plain("call")
      /\ \A n \in 1 .. 15 : code[k + 17 + n] = Pop(Popped[n])
      /\ code[k + 33] = Plain("add") /\ code[k + 34] = Plain("iretq")
  <2>1. code[k] = s[k] /\ (v \notin ErrorCodeHandlers => code[1] = s[1])
    <3>1. k \in 1 .. k /\ 1 \in 1 .. k
      BY <1>1
    <3> QED
      BY <1>5, <3>1
  <2>2. \A n \in 1 .. 15 : code[k + n] = Common[n]
    BY <1>5, <1>6
  <2>3. /\ code[k + 16] = Common[16] /\ code[k + 17] = Common[17]
        /\ code[k + 33] = Common[33] /\ code[k + 34] = Common[34]
    BY <1>5
  <2> QED
    BY <1>2, <1>7, <2>1, <2>2, <2>3, CommonFacts
<1> QED
  BY <1>8, <1>9 DEF k, code

---------------------------------------------------------------------------
(* The structs of idt.h, and where each of their fields is.                *)
FieldNames ==
  <<"r15", "r14", "r13", "r12", "r11", "r10", "r9", "r8",
    "rsi", "rdi", "rbp", "rdx", "rcx", "rbx", "rax",
    "isr_number", "error_code", "rip", "cs", "rflags", "rsp", "ss">>

(* The parameters of generic_handler, in the order of the stack.           *)
LEMMA ParameterFacts ==
  /\ DOMAIN Parameters = 1 .. 22
  /\ \A n \in 1 .. 22 : Parameters[n] = FieldNames[n]
<1> DEFINE Names == {FieldNames[n] : n \in 1 .. 22}
<1>1. CpuState \in Seq(Names) /\ StackState \in Seq(Names)
  <2>1. \A n \in 1 .. 15 : CpuState[n] \in Names
    <3>1. \A n \in 1 .. 15 : n \in 1 .. 22 /\ CpuState[n] = FieldNames[n]
      BY DEF CpuState, FieldNames
    <3> QED
      BY <3>1
  <2>2. \A n \in 1 .. 7 : StackState[n] \in Names
    <3>1. \A n \in 1 .. 7 : 15 + n \in 1 .. 22 /\ StackState[n] = FieldNames[15 + n]
      BY DEF StackState, FieldNames
    <3> QED
      BY <3>1
  <2> HIDE DEF Names
  <2>3. CpuState \in [1 .. 15 -> Names]
    BY <2>1 DEF CpuState
  <2>4. StackState \in [1 .. 7 -> Names]
    BY <2>2 DEF StackState
  <2> QED
    BY <2>3, <2>4, FunctionIsSeq
<1> HIDE DEF Names
<1>2. /\ Parameters \in Seq(Names) /\ Len(Parameters) = Len(CpuState) + Len(StackState)
      /\ \A n \in 1 .. Len(CpuState) : Parameters[n] = CpuState[n]
      /\ \A n \in 1 .. Len(StackState) : Parameters[Len(CpuState) + n] = StackState[n]
  BY <1>1, ConcatFacts DEF Parameters
<1>3. Len(CpuState) = 15 /\ Len(StackState) = 7
  BY DEF CpuState, StackState
<1>4. /\ Len(Parameters) = 22
      /\ \A n \in 1 .. 15 : Parameters[n] = CpuState[n]
      /\ \A n \in 1 .. 7 : Parameters[15 + n] = StackState[n]
  BY <1>2, <1>3
<1>5. \A n \in 1 .. 15 : CpuState[n] = FieldNames[n]
  BY DEF CpuState, FieldNames
<1>6. \A n \in 1 .. 7 : StackState[n] = FieldNames[15 + n]
  BY DEF StackState, FieldNames
<1>7. \A n \in 1 .. 22 : n \in 1 .. 15 \/ (n - 15 \in 1 .. 7 /\ n = 15 + (n - 15))
  OBVIOUS
<1>8. DOMAIN Parameters = 1 .. 22
  <2>1. Parameters \in Seq(Names)
    BY <1>2
  <2>2. DOMAIN Parameters = 1 .. Len(Parameters)
    BY <2>1
  <2> QED
    BY <1>4, <2>2
<1>9. ASSUME NEW n \in 1 .. 22 PROVE Parameters[n] = FieldNames[n]
  <2>1. CASE n \in 1 .. 15
    BY <1>4, <1>5, <2>1
  <2>2. CASE n - 15 \in 1 .. 7 /\ n = 15 + (n - 15)
    BY <1>4, <1>6, <2>2
  <2> QED
    BY <1>7, <2>1, <2>2
<1> QED
  BY <1>8, <1>9

(* No two fields have one name.                                            *)
LEMMA FieldNamesDiffer ==
  \A m, n \in 1 .. 22 : FieldNames[m] = FieldNames[n] => m = n
BY DEF FieldNames

(* A field of the struct at the top of a stack is one word of it.          *)
LEMMA StructFacts ==
  ASSUME NEW words, NEW n \in 1 .. 22
  PROVE  Struct(words)[FieldNames[n]] = words[Len(words) + 1 - n]
<1> DEFINE field == FieldNames[n]
<1>1. n \in DOMAIN Parameters /\ Parameters[n] = field
  BY ParameterFacts
<1>2. \A m \in DOMAIN Parameters : Parameters[m] = field => m = n
  BY ParameterFacts, FieldNamesDiffer
<1>3. (CHOOSE m \in DOMAIN Parameters : Parameters[m] = field) = n
  BY <1>1, <1>2
<1>4. field \in Range(Parameters)
  BY <1>1 DEF Range
<1> HIDE DEF field
<1> QED
  BY <1>3, <1>4 DEF Struct, field

---------------------------------------------------------------------------
(* What the stack holds of an interrupt, from the bottom: what the CPU     *)
(* pushes, what the stub pushes and the registers; then, while the handler *)
(* runs, the address it returns to.                                        *)
Word(e, j) ==
  CASE j = 1 -> DataSelector
    [] j = 2 -> Len(e.cpu.stack)
    [] j = 3 -> e.cpu.rflags
    [] j = 4 -> CodeSelector
    [] j = 5 -> e.cpu.rip
    [] j = 6 -> e.code
    [] j = 7 -> e.vector
    [] j \in 8 .. 22 -> e.cpu.regs[Pushed[j - 7]]
    [] j = 23 -> StubLength(e.vector) + 18

IsSeq(s) == \E S : s \in Seq(S)

(* The words of the interrupt start where the CPU aligned the stack.       *)
Bottom(s) == IF Len(s) % 2 = 0 THEN Len(s) ELSE Len(s) + 1

(* Stack s is that of the code e interrupted, with d words of e on top.    *)
Holds(e, s, d) ==
  /\ IsSeq(s) /\ Len(s) = Bottom(e.cpu.stack) + d
  /\ \A j \in 1 .. Len(e.cpu.stack) : s[j] = e.cpu.stack[j]
  /\ \A j \in 1 .. d : s[Bottom(e.cpu.stack) + j] = Word(e, j)

(* How far the code of interrupt e is when the CPU is in state c.          *)
Entering(e, c) ==
  /\ c.rip.at \in 1 .. StubLength(e.vector) + 16
  /\ Holds(e, c.stack, c.rip.at + 6 - StubLength(e.vector))
  /\ c.regs = e.cpu.regs /\ c.rflags = e.cpu.rflags \ {"IF"}

Handling(e, c) ==
  /\ \/ c.rip.at = StubLength(e.vector) + 17 /\ Holds(e, c.stack, 22)
     \/ c.rip.at = 0 /\ Holds(e, c.stack, 23)
  /\ c.regs = e.cpu.regs /\ c.rflags = {}

Leaving(e, c) ==
  /\ c.rip.at \in StubLength(e.vector) + 18 .. StubLength(e.vector) + 33
  /\ Holds(e, c.stack, StubLength(e.vector) + 40 - c.rip.at)
  /\ \A n \in 1 .. c.rip.at - StubLength(e.vector) - 18 :
       c.regs[Popped[n]] = e.cpu.regs[Popped[n]]
  /\ c.rflags = {} /\ e.vector \in Irqs

Returning(e, c) ==
  /\ c.rip.at = StubLength(e.vector) + 34
  /\ Holds(e, c.stack, 5)
  /\ c.regs = e.cpu.regs
  /\ c.rflags = {} /\ e.vector \in Irqs

CpuOK(c) ==
  /\ c = [regs |-> c.regs, rip |-> c.rip, rflags |-> c.rflags, stack |-> c.stack]
  /\ c.regs = [reg \in Registers |-> c.regs[reg]]
  /\ c.rip = [of |-> c.rip.of, at |-> c.rip.at]
  /\ c.rflags \subseteq {"IF", "DF"} /\ IsSeq(c.stack)

(* Interrupt e has been entered with the CPU in the state it has saved and *)
(* has come as far as state c.                                             *)
LevelOK(e, c) ==
  /\ e.vector \in Vectors /\ c.rip.of = e.vector
  /\ e.vector \in Irqs => "IF" \in e.cpu.rflags
  /\ e.vector \notin HasErrorCode => e.code = 0
  /\ Entering(e, c) \/ Handling(e, c) \/ Leaving(e, c) \/ Returning(e, c)

(* The CPU in the main thread (0), or where the k-th interrupt has got to. *)
CpuAt(k) == IF k < Len(interrupted) THEN interrupted[k + 1].cpu ELSE Cpu

LevelsOK ==
  /\ IsSeq(interrupted) /\ CpuAt(0).rip = Main
  /\ \A k \in 0 .. Len(interrupted) : CpuOK(CpuAt(k)) /\ Len(CpuAt(k).stack) <= 1 + 24 * k
  /\ \A k \in 1 .. Len(interrupted) : LevelOK(interrupted[k], CpuAt(k))

(* Only the handler of a line returns, and what generic_handler saves is   *)
(* the struct it was called with.                                          *)
HandlerOK ==
  /\ status \in {"on", "halted"}
  /\ Calling => context = Struct(Front(stack))
  /\ Calling /\ status = "on" => Last(interrupted).vector \in Irqs
  /\ report # NoReport =>
       /\ status = "halted"
       /\ report = PageFaultFlags(Last(interrupted).code)

IInv == LevelsOK /\ HandlerOK

---------------------------------------------------------------------------
(* Sequences of whatever the stack may hold.                               *)
LEMMA LengthOfSeq ==
  ASSUME NEW s, IsSeq(s)
  PROVE  Len(s) \in Nat /\ DOMAIN s = 1 .. Len(s)
BY DEF IsSeq

(* The CPU aligns the stack to two words.                                  *)
LEMMA BottomFacts ==
  ASSUME NEW s, IsSeq(s)
  PROVE  /\ Len(s) \in Nat /\ Bottom(s) \in Nat /\ Bottom(s) % 2 = 0
         /\ Len(s) <= Bottom(s) /\ Bottom(s) <= Len(s) + 1
<1>1. Len(s) \in Nat
  BY LengthOfSeq
<1>2. \A n \in Nat : n % 2 # 0 => (n + 1) % 2 = 0
  OBVIOUS
<1>3. CASE Len(s) % 2 = 0
  BY <1>1, <1>3 DEF Bottom
<1>4. CASE Len(s) % 2 # 0
  <2>1. Bottom(s) = Len(s) + 1
    BY <1>4 DEF Bottom
  <2> QED
    BY <1>1, <1>2, <1>4, <2>1
<1> QED
  BY <1>3, <1>4

(* Sequences with the same elements are equal.                             *)
LEMMA SeqsEqual ==
  ASSUME NEW s, NEW t, IsSeq(s), IsSeq(t), Len(s) = Len(t), \A i \in 1 .. Len(s) : s[i] = t[i]
  PROVE  s = t
<1>1. PICK S : s \in Seq(S)
  BY DEF IsSeq
<1>2. PICK T : t \in Seq(T)
  BY DEF IsSeq
<1> DEFINE U == S \union T
<1>3. s \in Seq(U)
  BY <1>1
<1>4. t \in Seq(U)
  BY <1>2
<1> QED
  BY <1>3, <1>4, SeqEqual

(* What SubSeq leaves of a sequence.                                       *)
LEMMA PrefixFacts ==
  ASSUME NEW s, IsSeq(s), NEW n \in 0 .. Len(s)
  PROVE  /\ IsSeq(SubSeq(s, 1, n)) /\ Len(SubSeq(s, 1, n)) = n
         /\ \A i \in 1 .. n : SubSeq(s, 1, n)[i] = s[i]
<1>1. PICK S : s \in Seq(S)
  BY DEF IsSeq
<1>2. \A i \in 1 .. n : s[i] \in S
  BY <1>1
<1> DEFINE p == SubSeq(s, 1, n)
<1>3. n \in Int /\ n >= 0
  BY <1>1
<1>4. /\ p \in Seq(S) /\ Len(p) = IF 1 <= n THEN n - 1 + 1 ELSE 0
      /\ \A i \in 1 .. n - 1 + 1 : p[i] = s[1 + i - 1]
  BY <1>2, <1>3, SubSeqProperties
<1> HIDE DEF p
<1>5. IsSeq(p) /\ Len(p) = n /\ \A i \in 1 .. n : p[i] = s[i]
  BY <1>3, <1>4 DEF IsSeq
<1> QED
  BY <1>5 DEF p

(* What Append, Last and Front do to one.                                  *)
LEMMA AppendFacts ==
  ASSUME NEW s, IsSeq(s), NEW w
  PROVE  /\ IsSeq(Append(s, w)) /\ Len(Append(s, w)) = Len(s) + 1
         /\ \A i \in 1 .. Len(s) : Append(s, w)[i] = s[i]
         /\ Append(s, w)[Len(s) + 1] = w
         /\ Last(Append(s, w)) = w /\ Front(Append(s, w)) = s
<1>1. PICK S : s \in Seq(S)
  BY DEF IsSeq
<1> DEFINE T == S \union {w}
           t == Append(s, w)
<1>2. s \in Seq(T) /\ w \in T
  BY <1>1
<1>3. /\ t \in Seq(T) /\ Len(t) = Len(s) + 1 /\ Len(s) \in Nat
      /\ \A i \in 1 .. Len(s) : t[i] = s[i]
      /\ t[Len(s) + 1] = w
  BY <1>2, AppendProperties, LenProperties
<1>4. IsSeq(t)
  BY <1>3 DEF IsSeq
<1> HIDE DEF t, T
<1>5. Last(t) = w
  BY <1>3 DEF Last
<1>6. Front(t) = s
  <2>1. Len(s) \in 0 .. Len(t) /\ Len(t) - 1 = Len(s)
    BY <1>3
  <2>2. /\ IsSeq(SubSeq(t, 1, Len(s))) /\ Len(SubSeq(t, 1, Len(s))) = Len(s)
        /\ \A i \in 1 .. Len(s) : SubSeq(t, 1, Len(s))[i] = t[i]
    BY <1>4, <2>1, PrefixFacts
  <2>3. SubSeq(t, 1, Len(s)) = s
    BY <1>3, <2>2, SeqsEqual
  <2> QED
    BY <2>1, <2>3 DEF Front
<1> QED
  BY <1>3, <1>4, <1>5, <1>6 DEF t

(* A prefix with the next words of an interrupt on top.                    *)
LEMMA PushHolds ==
  ASSUME NEW e, IsSeq(e.cpu.stack), NEW s, NEW d \in 0 .. 22, Holds(e, s, d)
  PROVE  Holds(e, Append(s, Word(e, d + 1)), d + 1)
<1> DEFINE b == Bottom(e.cpu.stack)
           t == Append(s, Word(e, d + 1))
<1>1. Len(e.cpu.stack) \in Nat /\ b \in Nat /\ Len(e.cpu.stack) <= b
  BY BottomFacts
<1>2. IsSeq(s) /\ Len(s) = b + d
  BY DEF Holds
<1>3. /\ IsSeq(t) /\ Len(t) = Len(s) + 1
      /\ \A i \in 1 .. Len(s) : t[i] = s[i]
      /\ t[Len(s) + 1] = Word(e, d + 1)
  BY <1>2, AppendFacts
<1> HIDE DEF b, t
<1>4. \A j \in 1 .. Len(e.cpu.stack) : t[j] = e.cpu.stack[j]
  <2>1. \A j \in 1 .. Len(e.cpu.stack) : j \in 1 .. Len(s)
    BY <1>1, <1>2
  <2> QED
    BY <1>3, <2>1 DEF Holds
<1>5. \A j \in 1 .. d + 1 : t[b + j] = Word(e, j)
  <2>1. \A j \in 1 .. d : t[b + j] = Word(e, j)
    <3>1. \A j \in 1 .. d : b + j \in 1 .. Len(s)
      BY <1>1, <1>2
    <3>2. \A j \in 1 .. d : s[b + j] = Word(e, j)
      BY DEF Holds, b
    <3> QED
      BY <1>3, <3>1, <3>2
  <2>2. t[b + (d + 1)] = Word(e, d + 1)
    BY <1>1, <1>2, <1>3
  <2> QED
    BY <2>1, <2>2
<1>6. Len(t) = b + (d + 1)
  BY <1>1, <1>2, <1>3
<1> QED
  BY <1>3, <1>4, <1>5, <1>6 DEF Holds, b, t

(* Popping words off a frame leaves the words below.                       *)
LEMMA DropHolds ==
  ASSUME NEW e, IsSeq(e.cpu.stack), NEW s, NEW d \in 1 .. 23, NEW m \in 0 .. d, Holds(e, s, d)
  PROVE  Holds(e, SubSeq(s, 1, Len(s) - m), d - m)
<1> DEFINE b == Bottom(e.cpu.stack)
           n == Len(s) - m
           t == SubSeq(s, 1, n)
<1>1. Len(e.cpu.stack) \in Nat /\ b \in Nat /\ Len(e.cpu.stack) <= b
  BY BottomFacts
<1>2. IsSeq(s) /\ Len(s) = b + d
  BY DEF Holds
<1>3. n \in 0 .. Len(s) /\ n = b + (d - m) /\ d - m \in 0 .. d
  BY <1>1, <1>2
<1> HIDE DEF n
<1>4. /\ IsSeq(t) /\ Len(t) = n
      /\ \A i \in 1 .. n : t[i] = s[i]
  BY <1>2, <1>3, PrefixFacts
<1> HIDE DEF b, t
<1>5. \A j \in 1 .. Len(e.cpu.stack) : t[j] = e.cpu.stack[j]
  <2>1. \A j \in 1 .. Len(e.cpu.stack) : j \in 1 .. n
    BY <1>1, <1>3
  <2> QED
    BY <1>4, <2>1 DEF Holds
<1>6. \A j \in 1 .. d - m : t[b + j] = Word(e, j)
  <2>1. \A j \in 1 .. d - m : b + j \in 1 .. n /\ j \in 1 .. d
    BY <1>1, <1>3
  <2>2. \A j \in 1 .. d : s[b + j] = Word(e, j)
    BY DEF Holds, b
  <2> QED
    BY <1>4, <2>1, <2>2
<1> QED
  BY <1>3, <1>4, <1>5, <1>6 DEF Holds, b, t, n

(* The word that lies j below the top.                                     *)
LEMMA TopHolds ==
  ASSUME NEW e, IsSeq(e.cpu.stack), NEW s, NEW d \in 1 .. 23, NEW j \in 0 .. d - 1, Holds(e, s, d)
  PROVE  s[Len(s) - j] = Word(e, d - j)
<1> DEFINE b == Bottom(e.cpu.stack)
<1>1. b \in Nat
  BY BottomFacts
<1>2. Len(s) = b + d /\ \A i \in 1 .. d : s[b + i] = Word(e, i)
  BY DEF Holds
<1> HIDE DEF b
<1>3. Len(s) - j = b + (d - j) /\ d - j \in 1 .. d
  BY <1>1, <1>2
<1> QED
  BY <1>2, <1>3

---------------------------------------------------------------------------
(* Which instruction is where in the code of a vector.                     *)
OpAt(at) ==
  IF at <= 0 THEN "push" ELSE IF at <= 15 THEN "push reg"
  ELSE IF at = 16 THEN "cld" ELSE IF at = 17 THEN "call"
  ELSE IF at <= 32 THEN "pop" ELSE IF at = 33 THEN "add" ELSE "iretq"

(* The parts of an instruction.                                            *)
LEMMA InstructionFacts ==
  /\ \A w : Push(w).op = "push" /\ Push(w).of = w
  /\ \A reg : PushReg(reg).op = "push reg" /\ PushReg(reg).of = reg
  /\ \A reg : Pop(reg).op = "pop" /\ Pop(reg).of = reg
  /\ \A op : Plain(op).op = op
BY DEF Push, PushReg, Pop, Plain

(* Which instruction is at which place.                                    *)
LEMMA OpFacts ==
  ASSUME NEW v \in Vectors, NEW at \in 1 .. StubLength(v) + 34
  PROVE  Code(v)[at].op = OpAt(at - StubLength(v))
<1> DEFINE k == StubLength(v)
           code == Code(v)
<1>1. k \in {1, 2} /\ (v \notin ErrorCodeHandlers => k = 2) /\ (v \in ErrorCodeHandlers => k = 1)
  BY DEF StubLength
<1>2. /\ code[k] = Push(v)
      /\ \A n \in 1 .. 15 : code[k + n] = PushReg(Pushed[n])
      /\ code[k + 16] = Plain("cld") /\ code[k + 17] = Plain("call")
      /\ \A n \in 1 .. 15 : code[k + 17 + n] = Pop(Popped[n])
      /\ code[k + 33] = Plain("add") /\ code[k + 34] = Plain("iretq")
  BY CodeFacts
<1>3. v \notin ErrorCodeHandlers => code[1] = Push(0)
  BY CodeFacts
<1>4. at \in 1 .. k + 34
  OBVIOUS
<1> HIDE DEF k, code
<1>5. CASE at <= k
  <2>1. code[at] = Push(v) \/ code[at] = Push(0)
    BY <1>1, <1>2, <1>3, <1>4, <1>5
  <2>2. code[at].op = "push"
    BY <2>1, InstructionFacts
  <2>3. at - k <= 0
    BY <1>1, <1>4, <1>5
  <2> QED
    BY <2>2, <2>3 DEF OpAt, k, code
<1>6. CASE at \in k + 1 .. k + 15
  <2>1. at - k \in 1 .. 15 /\ at = k + (at - k)
    BY <1>1, <1>6
  <2>2. code[at] = PushReg(Pushed[at - k])
    BY <1>2, <2>1, Zenon
  <2>3. code[at].op = "push reg"
    BY <2>2, InstructionFacts, Zenon
  <2>4. OpAt(at - k) = "push reg"
    BY <2>1 DEF OpAt
  <2> QED
    BY <2>3, <2>4 DEF k, code
<1>7. CASE at \in k + 18 .. k + 32
  <2>1. at - k - 17 \in 1 .. 15 /\ at = k + 17 + (at - k - 17) /\ at - k \in 18 .. 32
    BY <1>1, <1>7
  <2>2. code[at] = Pop(Popped[at - k - 17])
    BY <1>2, <2>1, Zenon
  <2>3. code[at].op = "pop"
    BY <2>2, InstructionFacts, Zenon
  <2> QED
    BY <2>1, <2>3 DEF OpAt, k, code
<1>8. CASE at = k + 16
  <2>1. at - k = 16
    BY <1>1, <1>8
  <2>2. code[at] = Plain("cld")
    BY <1>2, <1>8, Zenon
  <2>3. code[at].op = "cld"
    BY <2>2, InstructionFacts, Zenon
  <2>4. OpAt(at - k) = "cld"
    BY <2>1 DEF OpAt
  <2> QED
    BY <2>3, <2>4 DEF k, code
<1>9. CASE at = k + 17
  <2>1. at - k = 17
    BY <1>1, <1>9
  <2>2. code[at] = Plain("call")
    BY <1>2, <1>9, Zenon
  <2>3. code[at].op = "call"
    BY <2>2, InstructionFacts, Zenon
  <2>4. OpAt(at - k) = "call"
    BY <2>1 DEF OpAt
  <2> QED
    BY <2>3, <2>4 DEF k, code
<1>10. CASE at = k + 33
  <2>1. at - k = 33
    BY <1>1, <1>10
  <2>2. code[at] = Plain("add")
    BY <1>2, <1>10, Zenon
  <2>3. code[at].op = "add"
    BY <2>2, InstructionFacts, Zenon
  <2>4. OpAt(at - k) = "add"
    BY <2>1 DEF OpAt
  <2> QED
    BY <2>3, <2>4 DEF k, code
<1>11. CASE at = k + 34
  <2>1. at - k = 34
    BY <1>1, <1>11
  <2>2. code[at] = Plain("iretq")
    BY <1>2, <1>11, Zenon
  <2>3. code[at].op = "iretq"
    BY <2>2, InstructionFacts, Zenon
  <2>4. OpAt(at - k) = "iretq"
    BY <2>1 DEF OpAt
  <2> QED
    BY <2>3, <2>4 DEF k, code
<1> QED
  BY <1>1, <1>4, <1>5, <1>6, <1>7, <1>8, <1>9, <1>10, <1>11

(* A push puts the next word of the interrupt on the stack.                *)
LEMMA PushOperands ==
  ASSUME NEW e, e.vector \in Vectors, e.vector \notin HasErrorCode => e.code = 0,
         NEW at \in 1 .. StubLength(e.vector) + 15
  PROVE  /\ at <= StubLength(e.vector) =>
               Code(e.vector)[at].of = Word(e, at + 7 - StubLength(e.vector))
         /\ at > StubLength(e.vector) =>
               e.cpu.regs[Code(e.vector)[at].of] = Word(e, at + 7 - StubLength(e.vector))
<1> DEFINE v == e.vector
           k == StubLength(v)
           code == Code(v)
<1>1. k \in {1, 2} /\ (v \notin ErrorCodeHandlers => k = 2) /\ (v \in ErrorCodeHandlers => k = 1)
  BY DEF StubLength
<1>2. /\ v \notin ErrorCodeHandlers => code[1].of = 0
      /\ code[k].of = v
      /\ \A n \in 1 .. 15 : code[k + n].of = Pushed[n]
  BY CodeFacts, InstructionFacts
<1>3. v \notin ErrorCodeHandlers => e.code = 0
  BY EntryAssumption DEF ErrorCodeHandlers, HasErrorCode, Vectors
<1> HIDE DEF k, code
<1>4. CASE at = k
  <2>1. at + 7 - k = 7 /\ at <= k
    BY <1>1, <1>4
  <2> QED
    BY <1>2, <1>4, <2>1 DEF Word, k, code
<1>5. CASE at < k
  <2>1. at + 7 - k = 6 /\ at = 1 /\ v \notin ErrorCodeHandlers /\ ~(at > k)
    BY <1>1, <1>5 DEF k
  <2> QED
    BY <1>2, <1>3, <2>1 DEF Word, k, code
<1>6. CASE at > k
  <2>1. /\ at - k \in 1 .. 15 /\ at = k + (at - k)
        /\ at + 7 - k \in 8 .. 22 /\ (at + 7 - k) - 7 = at - k
    BY <1>1, <1>6 DEF k
  <2>2. code[at].of = Pushed[at - k]
    BY <1>2, <2>1
  <2>3. Word(e, at + 7 - k) = e.cpu.regs[Pushed[at - k]]
    BY <2>1 DEF Word
  <2>4. ~(at <= k)
    BY <1>1, <1>6 DEF k
  <2> QED
    BY <2>2, <2>3, <2>4 DEF k, code
<1> QED
  BY <1>1, <1>4, <1>5, <1>6 DEF k

---------------------------------------------------------------------------
(* The state of the CPU by its parts.                                      *)
LEMMA CpuFields ==
  /\ Cpu.regs = regs /\ Cpu.rip = rip /\ Cpu.rflags = rflags /\ Cpu.stack = stack
  /\ Cpu'.regs = regs' /\ Cpu'.rip = rip' /\ Cpu'.rflags = rflags' /\ Cpu'.stack = stack'
BY DEF Cpu

PartsOK ==
  /\ regs = [reg \in Registers |-> regs[reg]]
  /\ rip = [of |-> rip.of, at |-> rip.at]
  /\ rflags \subseteq {"IF", "DF"} /\ IsSeq(stack)

(* The invariant of the CPU, variable by variable.                         *)
LEMMA CpuParts == CpuOK(Cpu) <=> PartsOK
BY CpuFields DEF CpuOK, PartsOK, Cpu

(* The same after a step.                                                  *)
LEMMA CpuPartsNext == CpuOK(Cpu') <=> PartsOK'
BY CpuFields DEF CpuOK, PartsOK, Cpu

(* An interrupt has at most 24 words on the stack.                         *)
LEMMA LevelLength ==
  ASSUME NEW e, NEW c, LevelOK(e, c), IsSeq(e.cpu.stack)
  PROVE  Len(c.stack) <= Len(e.cpu.stack) + 24 /\ Len(c.stack) \in Nat
<1> DEFINE k == StubLength(e.vector)
<1>1. k \in {1, 2}
  BY DEF StubLength
<1> HIDE DEF k
<1>2. ASSUME NEW d \in 0 .. 23, Holds(e, c.stack, d)
      PROVE  Len(c.stack) <= Len(e.cpu.stack) + 24 /\ Len(c.stack) \in Nat
  <2>1. Len(c.stack) = Bottom(e.cpu.stack) + d
    BY <1>2 DEF Holds
  <2>2. /\ Bottom(e.cpu.stack) \in Nat /\ Len(e.cpu.stack) \in Nat
        /\ Bottom(e.cpu.stack) <= Len(e.cpu.stack) + 1
    BY BottomFacts
  <2> QED
    BY <2>1, <2>2
<1>3. CASE Entering(e, c)
  <2>1. c.rip.at + 6 - k \in 0 .. 23 /\ Holds(e, c.stack, c.rip.at + 6 - k)
    BY <1>1, <1>3 DEF Entering, k
  <2> QED
    BY <1>2, <2>1
<1>4. CASE Handling(e, c)
  BY <1>2, <1>4 DEF Handling
<1>5. CASE Leaving(e, c)
  <2>1. k + 40 - c.rip.at \in 0 .. 23 /\ Holds(e, c.stack, k + 40 - c.rip.at)
    BY <1>1, <1>5 DEF Leaving, k
  <2> QED
    BY <1>2, <2>1
<1>6. CASE Returning(e, c)
  BY <1>2, <1>6 DEF Returning
<1> QED
  BY <1>3, <1>4, <1>5, <1>6 DEF LevelOK

(* The innermost interrupt, and the state it has saved.                    *)
LEMMA TopFacts ==
  ASSUME LevelsOK, rip # Main
  PROVE  /\ Len(interrupted) \in Nat \ {0}
         /\ Last(interrupted) = interrupted[Len(interrupted)]
         /\ LevelOK(Last(interrupted), Cpu) /\ PartsOK
         /\ CpuOK(Last(interrupted).cpu) /\ Last(interrupted).cpu = CpuAt(Len(interrupted) - 1)
         /\ Len(Last(interrupted).cpu.stack) <= 1 + 24 * (Len(interrupted) - 1)
<1> DEFINE n == Len(interrupted)
<1>1. n \in Nat
  BY LengthOfSeq DEF LevelsOK
<1>2. n # 0
  BY CpuFields DEF LevelsOK, CpuAt
<1>3. CpuAt(n) = Cpu /\ CpuAt(n - 1) = interrupted[n].cpu
  BY <1>1, <1>2 DEF CpuAt
<1>4. Last(interrupted) = interrupted[n]
  BY DEF Last
<1> HIDE DEF n
<1>5. n \in 0 .. n /\ n \in 1 .. n /\ n - 1 \in 0 .. n
  BY <1>1, <1>2
<1>6. CpuOK(CpuAt(n)) /\ LevelOK(interrupted[n], CpuAt(n))
  BY <1>5 DEF LevelsOK, n
<1>7. CpuOK(CpuAt(n - 1)) /\ Len(CpuAt(n - 1).stack) <= 1 + 24 * (n - 1)
  BY <1>5 DEF LevelsOK, n
<1> QED
  BY <1>1, <1>2, <1>3, <1>4, <1>6, <1>7, CpuParts DEF n

(* A step of the innermost interrupt leaves the others where they are.     *)
LEMMA TopStep ==
  ASSUME LevelsOK, rip # Main, UNCHANGED interrupted, PartsOK', LevelOK(Last(interrupted), Cpu')
  PROVE  LevelsOK'
<1> DEFINE e == Last(interrupted)
<1>0. PICK n \in Nat \ {0} : n = Len(interrupted)
  BY TopFacts
<1>1. /\ e = interrupted[n]
      /\ CpuOK(e.cpu) /\ Len(e.cpu.stack) <= 1 + 24 * (n - 1)
  BY <1>0, TopFacts
<1>2. IsSeq(e.cpu.stack)
  BY <1>1 DEF CpuOK
<1>3. Len(Cpu'.stack) <= Len(e.cpu.stack) + 24 /\ Len(Cpu'.stack) \in Nat /\ Len(e.cpu.stack) \in Nat
  BY <1>2, LevelLength, LengthOfSeq
<1> HIDE DEF e
<1>4. Len(Cpu'.stack) <= 1 + 24 * n
  BY <1>1, <1>3
<1>5. CpuOK(Cpu')
  BY CpuPartsNext
<1>6. Len(interrupted)' = n
  BY <1>0
<1>7. CpuAt(n)' = Cpu'
  BY <1>0, <1>6 DEF CpuAt
<1>8. \A k \in 0 .. n : k # n => CpuAt(k)' = CpuAt(k)
  BY <1>0, <1>6 DEF CpuAt
<1>9. ASSUME NEW k \in 0 .. n
      PROVE  CpuOK(CpuAt(k)') /\ Len(CpuAt(k)'.stack) <= 1 + 24 * k
  BY <1>0, <1>4, <1>5, <1>7, <1>8 DEF LevelsOK
<1>10. ASSUME NEW k \in 1 .. n PROVE LevelOK(interrupted'[k], CpuAt(k)')
  <2>1. CASE k = n
    BY <1>1, <1>7, <2>1 DEF e
  <2>2. CASE k # n
    BY <1>0, <1>8, <2>2 DEF LevelsOK
  <2> QED
    BY <2>1, <2>2
<1>11. CpuAt(0)' = CpuAt(0)
  BY <1>0, <1>8
<1> QED
  BY <1>6, <1>9, <1>10, <1>11 DEF LevelsOK

---------------------------------------------------------------------------
(* The code at rip is that of the innermost interrupt.                     *)
LEMMA StepIsTop ==
  ASSUME LevelsOK, NEW op, Step(op)
  PROVE  /\ rip # Main /\ status = "on" /\ rip.of = Last(interrupted).vector
         /\ rip.at \in 1 .. StubLength(rip.of) + 34
         /\ OpAt(rip.at - StubLength(rip.of)) = op
<1>1. rip # Main
  BY EntryAssumption DEF Step, Main, NoVector, Vectors
<1>2. LevelOK(Last(interrupted), Cpu) /\ rip.of = Last(interrupted).vector
  BY <1>1, TopFacts, CpuFields DEF LevelOK
<1> DEFINE k == StubLength(rip.of)
<1>3. k \in {1, 2}
  BY DEF StubLength
<1>4. rip.of \in Vectors /\ rip.at > 0 /\ Code(rip.of)[rip.at].op = op /\ status = "on"
  BY DEF Step
<1>5. rip.at \in 1 .. k + 34
  <2>1. \/ rip.at \in 1 .. k + 16 \/ rip.at = k + 17 \/ rip.at = 0
        \/ rip.at \in k + 18 .. k + 33 \/ rip.at = k + 34
    BY <1>2, CpuFields DEF LevelOK, Entering, Handling, Leaving, Returning
  <2> HIDE DEF k
  <2> QED
    BY <1>3, <1>4, <2>1
<1>6. OpAt(rip.at - k) = op
  BY <1>4, <1>5, OpFacts
<1> QED
  BY <1>1, <1>2, <1>4, <1>5, <1>6

(* Where in the code that is, for each instruction.                        *)
LEMMA Positions ==
  ASSUME NEW k \in {1, 2}, NEW at \in 1 .. k + 34
  PROVE  /\ OpAt(at - k) = "push" => at \in 1 .. k
         /\ OpAt(at - k) = "push reg" => at \in k + 1 .. k + 15
         /\ OpAt(at - k) = "cld" => at = k + 16
         /\ OpAt(at - k) = "call" => at = k + 17
         /\ OpAt(at - k) = "pop" => at \in k + 18 .. k + 32
         /\ OpAt(at - k) = "add" => at = k + 33
         /\ OpAt(at - k) = "iretq" => at = k + 34
BY DEF OpAt

(* Which of the four stages that is.                                       *)
LEMMA Stages ==
  ASSUME NEW e, NEW c, LevelOK(e, c)
  PROVE  /\ c.rip.at \in 1 .. StubLength(e.vector) + 16 => Entering(e, c)
         /\ c.rip.at = StubLength(e.vector) + 17 => Handling(e, c)
         /\ c.rip.at = 0 => Handling(e, c)
         /\ c.rip.at \in StubLength(e.vector) + 18 .. StubLength(e.vector) + 33 => Leaving(e, c)
         /\ c.rip.at = StubLength(e.vector) + 34 => Returning(e, c)
<1> DEFINE k == StubLength(e.vector)
<1>1. k \in {1, 2}
  BY DEF StubLength
<1>2. /\ Entering(e, c) => c.rip.at \in 1 .. k + 16
      /\ Handling(e, c) => c.rip.at = k + 17 \/ c.rip.at = 0
      /\ Leaving(e, c) => c.rip.at \in k + 18 .. k + 33
      /\ Returning(e, c) => c.rip.at = k + 34
  BY DEF Entering, Handling, Leaving, Returning
<1>3. Entering(e, c) \/ Handling(e, c) \/ Leaving(e, c) \/ Returning(e, c)
  BY DEF LevelOK
<1> HIDE DEF k
<1>4. /\ c.rip.at \in 1 .. k + 16 => Entering(e, c)
      /\ c.rip.at = k + 17 => Handling(e, c)
      /\ c.rip.at = 0 => Handling(e, c)
      /\ c.rip.at \in k + 18 .. k + 33 => Leaving(e, c)
      /\ c.rip.at = k + 34 => Returning(e, c)
  BY <1>1, <1>2, <1>3
<1> QED
  BY <1>4 DEF k

(* The parts of the CPU that advance with an instruction.                  *)
LEMMA AdvanceParts ==
  ASSUME PartsOK, NEW at, rip' = [rip EXCEPT !.at = at]
  PROVE  rip'.of = rip.of /\ rip'.at = at /\ rip' = [of |-> rip'.of, at |-> rip'.at]
BY DEF PartsOK

(* Where a push puts its word.                                             *)
LEMMA PushPlaces ==
  ASSUME NEW k \in {1, 2}, NEW at \in 1 .. k + 15
  PROVE  /\ at \in 1 .. k + 16 /\ at + 6 - k \in 0 .. 22 /\ (at + 6 - k) + 1 = at + 7 - k
         /\ at + 1 \in 1 .. k + 16 /\ (at + 1) + 6 - k = (at + 6 - k) + 1
<1>1. CASE k = 1
  BY <1>1
<1>2. CASE k = 2
  BY <1>2
<1> QED
  BY <1>1, <1>2

(* A push adds the next word of the frame.                                 *)
LEMMA PushStepLevels ==
  ASSUME LevelsOK, PushStep
  PROVE  LevelsOK'
<1> DEFINE e == Last(interrupted)
           v == e.vector
           k == StubLength(v)
           at == rip.at
           d == at + 6 - k
<1>1. /\ rip # Main /\ rip.of = v /\ at \in 1 .. k + 34
      /\ Step("push") => OpAt(at - k) = "push"
      /\ Step("push reg") => OpAt(at - k) = "push reg"
  BY StepIsTop DEF PushStep
<1>2. LevelOK(e, Cpu) /\ PartsOK /\ IsSeq(e.cpu.stack)
  BY <1>1, TopFacts DEF CpuOK
<1>3. k \in {1, 2}
  BY DEF StubLength
<1>4. (Step("push") => at \in 1 .. k) /\ (Step("push reg") => at \in k + 1 .. k + 15)
  BY <1>1, <1>3, Positions
<1>5. Step("push") \/ Step("push reg")
  BY DEF PushStep
<1> HIDE DEF k, at
<1>5b. at \in 1 .. k + 15
  <2>1. CASE at \in 1 .. k
    BY <1>3, <2>1
  <2>2. CASE at \in k + 1 .. k + 15
    BY <1>3, <2>2
  <2> QED
    BY <1>4, <1>5, <2>1, <2>2
<1>6. /\ at \in 1 .. k + 15 /\ at \in 1 .. k + 16 /\ d \in 0 .. 22 /\ d + 1 = at + 7 - k
      /\ at + 1 \in 1 .. k + 16 /\ (at + 1) + 6 - k = d + 1
  BY <1>3, <1>5b, PushPlaces
<1>7. Entering(e, Cpu)
  BY <1>2, <1>6, Stages, CpuFields DEF k, at
<1>8. /\ Holds(e, stack, d) /\ regs = e.cpu.regs /\ rflags = e.cpu.rflags \ {"IF"}
  BY <1>7, CpuFields DEF Entering, k, at
<1>9. (IF Step("push") THEN Operand ELSE regs[Operand]) = Word(e, d + 1)
  <2>1. /\ at <= k => Code(v)[at].of = Word(e, at + 7 - k)
        /\ at > k => e.cpu.regs[Code(v)[at].of] = Word(e, at + 7 - k)
    BY <1>2, <1>6, PushOperands DEF LevelOK, k
  <2>2. Operand = Code(v)[at].of
    BY <1>1 DEF Operand, at
  <2>3. CASE Step("push")
    <3>0. at \in 1 .. k
      BY <1>4, <2>3
    <3>1. at <= k
      BY <1>3, <3>0
    <3>2. Operand = Word(e, d + 1)
      BY <1>6, <2>1, <2>2, <3>1
    <3> QED
      BY <2>3, <3>2
  <2>4. CASE ~Step("push")
    <3>1. at \in k + 1 .. k + 15
      BY <1>4, <1>5, <2>4
    <3>2. at > k
      BY <1>3, <3>1
    <3>3. regs[Operand] = Word(e, d + 1)
      BY <1>6, <1>8, <2>1, <2>2, <3>2
    <3> QED
      BY <2>4, <3>3
  <2> QED
    BY <2>3, <2>4
<1> HIDE DEF d
<1>10. Holds(e, stack', d + 1)
  <2>1. stack' = Append(stack, Word(e, d + 1))
    BY <1>9 DEF PushStep
  <2> QED
    BY <1>2, <1>6, <1>8, <2>1, PushHolds
<1>11. /\ rip'.of = v /\ rip'.at = at + 1
       /\ rip' = [of |-> rip'.of, at |-> rip'.at]
  BY <1>1, <1>2, AdvanceParts DEF PushStep, Advance, at
<1>12. UNCHANGED <<regs, rflags, interrupted>>
  BY DEF PushStep
<1>13. Entering(e, Cpu')
  BY <1>6, <1>8, <1>10, <1>11, <1>12, CpuFields DEF Entering, k, d
<1>14. LevelOK(e, Cpu')
  BY <1>2, <1>11, <1>13, CpuFields DEF LevelOK
<1>15. PartsOK'
  BY <1>2, <1>10, <1>11, <1>12 DEF PartsOK, Holds
<1> QED
  BY <1>1, <1>12, <1>14, <1>15, TopStep

(* cld clears the direction flag; the frame keeps the old one.             *)
LEMMA CldStepLevels ==
  ASSUME LevelsOK, CldStep
  PROVE  LevelsOK'
<1> DEFINE e == Last(interrupted)
           v == e.vector
           k == StubLength(v)
           at == rip.at
<1>1. /\ rip # Main /\ rip.of = v /\ at \in 1 .. k + 34 /\ OpAt(at - k) = "cld"
  BY StepIsTop DEF CldStep
<1>2. LevelOK(e, Cpu) /\ PartsOK /\ IsSeq(e.cpu.stack)
  BY <1>1, TopFacts DEF CpuOK
<1>3. k \in {1, 2}
  BY DEF StubLength
<1> HIDE DEF k, at
<1>4. at = k + 16
  BY <1>1, <1>3, Positions
<1>5. at \in 1 .. k + 16 /\ at + 6 - k = 22 /\ at + 1 = k + 17
  BY <1>3, <1>4
<1>6. Entering(e, Cpu)
  BY <1>2, <1>5, Stages, CpuFields DEF k, at
<1>7. Holds(e, stack, 22) /\ regs = e.cpu.regs /\ rflags = e.cpu.rflags \ {"IF"}
  <2>1. Holds(e, stack, at + 6 - k)
    BY <1>6, CpuFields DEF Entering, k, at
  <2>2. regs = e.cpu.regs /\ rflags = e.cpu.rflags \ {"IF"}
    BY <1>6, CpuFields DEF Entering
  <2> QED
    BY <1>5, <2>1, <2>2
<1>8. /\ rip'.of = v /\ rip'.at = k + 17
      /\ rip' = [of |-> rip'.of, at |-> rip'.at]
  BY <1>1, <1>2, <1>5, AdvanceParts DEF CldStep, Advance, at
<1>9. UNCHANGED <<regs, stack, interrupted>>
  BY DEF CldStep
<1>10. rflags' = {}
  <2>1. CpuOK(e.cpu)
    BY <1>1, TopFacts
  <2>2. e.cpu.rflags \subseteq {"IF", "DF"}
    BY <2>1 DEF CpuOK
  <2> QED
    BY <1>7, <2>2 DEF CldStep
<1>11. Handling(e, Cpu')
  BY <1>7, <1>8, <1>9, <1>10, CpuFields DEF Handling, k
<1>12. LevelOK(e, Cpu')
  BY <1>2, <1>8, <1>11, CpuFields DEF LevelOK
<1>13. PartsOK'
  BY <1>2, <1>8, <1>9, <1>10 DEF PartsOK
<1> QED
  BY <1>1, <1>9, <1>12, <1>13, TopStep

(* The call finds the whole frame on the stack, and adds its return        *)
(* address.                                                                *)
LEMMA CallStepLevels ==
  ASSUME LevelsOK, CallStep
  PROVE  /\ LevelsOK' /\ Holds(Last(interrupted), stack, 22)
         /\ stack' = Append(stack, StubLength(rip.of) + 18)
         /\ rip # Main /\ UNCHANGED interrupted
<1> DEFINE e == Last(interrupted)
           v == e.vector
           k == StubLength(v)
           at == rip.at
<1>1. /\ rip # Main /\ rip.of = v /\ at \in 1 .. k + 34 /\ OpAt(at - k) = "call"
  BY StepIsTop DEF CallStep
<1>2. LevelOK(e, Cpu) /\ PartsOK /\ IsSeq(e.cpu.stack)
  BY <1>1, TopFacts DEF CpuOK
<1>3. k \in {1, 2}
  BY DEF StubLength
<1> HIDE DEF k, at
<1>4. at = k + 17
  BY <1>1, <1>3, Positions
<1>5. at + 1 = k + 18 /\ at # 0
  BY <1>3, <1>4
<1>6. Handling(e, Cpu)
  BY <1>2, <1>4, Stages, CpuFields DEF k, at
<1>7. Holds(e, stack, 22) /\ regs = e.cpu.regs /\ rflags = {}
  BY <1>5, <1>6, CpuFields DEF Handling, at
<1>8. /\ rip'.of = v /\ rip'.at = 0
      /\ rip' = [of |-> rip'.of, at |-> rip'.at]
  BY <1>1, <1>2, AdvanceParts DEF CallStep
<1>9. UNCHANGED <<regs, rflags, interrupted>>
  BY DEF CallStep
<1>10. stack' = Append(stack, k + 18)
  BY <1>5 DEF CallStep, at
<1>11. Holds(e, stack', 23)
  <2>1. Word(e, 22 + 1) = k + 18
    BY DEF Word, k
  <2>2. Holds(e, Append(stack, Word(e, 22 + 1)), 22 + 1)
    BY <1>2, <1>7, PushHolds
  <2> QED
    BY <1>10, <2>1, <2>2
<1>12. Handling(e, Cpu')
  BY <1>7, <1>8, <1>9, <1>11, CpuFields DEF Handling
<1>13. LevelOK(e, Cpu')
  BY <1>2, <1>8, <1>12, CpuFields DEF LevelOK
<1>14. PartsOK'
  BY <1>2, <1>8, <1>9, <1>11 DEF PartsOK, Holds
<1> QED
  BY <1>1, <1>7, <1>9, <1>10, <1>13, <1>14, TopStep DEF k

(* generic_handler returns with the stack as it was called.                *)
LEMMA ReturnStepLevels ==
  ASSUME LevelsOK, HandlerOK, ReturnStep
  PROVE  LevelsOK'
<1> DEFINE e == Last(interrupted)
           v == e.vector
           k == StubLength(v)
<1>1. rip # Main /\ rip.at = 0 /\ v \in Irqs
  BY DEF ReturnStep, Calling, HandlerOK, Main
<1>2. LevelOK(e, Cpu) /\ PartsOK /\ IsSeq(e.cpu.stack)
  BY <1>1, TopFacts DEF CpuOK
<1>3. k \in {1, 2}
  BY DEF StubLength
<1>4. Handling(e, Cpu)
  BY <1>1, <1>2, Stages, CpuFields
<1> HIDE DEF k
<1>5. Holds(e, stack, 23) /\ rflags = {}
  <2>1. k + 17 # 0
    BY <1>3
  <2> QED
    BY <1>1, <1>4, <2>1, CpuFields DEF Handling, k
<1>6. Last(stack) = k + 18
  <2>1. stack[Len(stack) - 0] = Word(e, 23 - 0)
    BY <1>2, <1>5, TopHolds
  <2>2. Word(e, 23 - 0) = k + 18
    BY DEF Word, k
  <2>3. Len(stack) \in Nat
    BY <1>2, LengthOfSeq DEF PartsOK
  <2>4. Len(stack) - 0 = Len(stack)
    BY <2>3
  <2> QED
    BY <2>1, <2>2, <2>4 DEF Last
<1>7. Holds(e, stack', 22)
  <2>1. Holds(e, SubSeq(stack, 1, Len(stack) - 1), 23 - 1)
    BY <1>2, <1>5, DropHolds
  <2> QED
    BY <2>1 DEF ReturnStep, Drop
<1>8. /\ rip'.of = v /\ rip'.at = k + 18
      /\ rip' = [of |-> rip'.of, at |-> rip'.at]
  <2>1. rip.of = v
    BY <1>2, CpuFields DEF LevelOK
  <2> QED
    BY <1>2, <1>6, <2>1, AdvanceParts DEF ReturnStep
<1>9. UNCHANGED <<rflags, interrupted>>
  BY DEF ReturnStep
<1>10. regs' = [reg \in Registers |-> regs'[reg]]
  BY DEF ReturnStep
<1>11. Leaving(e, Cpu')
  <2>1. /\ k + 18 \in k + 18 .. k + 33 /\ k + 40 - (k + 18) = 22
        /\ (1 .. (k + 18) - k - 18) = {}
    BY <1>3
  <2>2. Cpu'.rip.at = k + 18 /\ Cpu'.rflags = {} /\ Cpu'.stack = stack'
    BY <1>5, <1>8, <1>9, CpuFields
  <2>3. Holds(e, Cpu'.stack, k + 40 - Cpu'.rip.at)
    BY <1>7, <2>1, <2>2, Zenon
  <2>4. Cpu'.rip.at \in k + 18 .. k + 33
    BY <2>1, <2>2, Zenon
  <2>5. (1 .. Cpu'.rip.at - k - 18) = {}
    BY <2>1, <2>2, Zenon
  <2> QED
    BY <1>1, <2>2, <2>3, <2>4, <2>5, Zenon DEF Leaving, k
<1>12. LevelOK(e, Cpu')
  BY <1>2, <1>8, <1>11, CpuFields DEF LevelOK
<1>13. PartsOK'
  BY <1>2, <1>7, <1>8, <1>9, <1>10 DEF PartsOK, Holds
<1> QED
  BY <1>1, <1>9, <1>12, <1>13, TopStep

(* Which register a pop loads, and with what.                              *)
LEMMA PopPlaces ==
  ASSUME NEW k \in {1, 2}, NEW at \in k + 18 .. k + 32
  PROVE  /\ k + 40 - at \in 8 .. 22 /\ at - k - 17 \in 1 .. 15
         /\ 16 - (at - k - 17) = (k + 40 - at) - 7 /\ at = k + 17 + (at - k - 17)
         /\ at \in k + 18 .. k + 33 /\ at + 1 \in k + 18 .. k + 33
         /\ k + 40 - (at + 1) = (k + 40 - at) - 1
         /\ (at + 1) - k - 18 = at - k - 17 /\ at - k - 18 = (at - k - 17) - 1
<1>1. CASE k = 1
  BY <1>1
<1>2. CASE k = 2
  BY <1>2
<1> QED
  BY <1>1, <1>2

(* A pop gives a register the value it had when it was pushed.             *)
LEMMA PopStepLevels ==
  ASSUME LevelsOK, PopStep
  PROVE  LevelsOK'
<1> DEFINE e == Last(interrupted)
           v == e.vector
           k == StubLength(v)
           at == rip.at
           d == k + 40 - at
           m == at - k - 17
<1>1. /\ rip # Main /\ rip.of = v /\ at \in 1 .. k + 34 /\ OpAt(at - k) = "pop"
  BY StepIsTop DEF PopStep
<1>2. LevelOK(e, Cpu) /\ PartsOK /\ IsSeq(e.cpu.stack)
  BY <1>1, TopFacts DEF CpuOK
<1>3. k \in {1, 2}
  BY DEF StubLength
<1> HIDE DEF k, at
<1>4. at \in k + 18 .. k + 32
  BY <1>1, <1>3, Positions
<1>5. /\ d \in 8 .. 22 /\ m \in 1 .. 15 /\ 16 - m = d - 7 /\ at = k + 17 + m
      /\ at \in k + 18 .. k + 33 /\ at + 1 \in k + 18 .. k + 33
      /\ k + 40 - (at + 1) = d - 1 /\ (at + 1) - k - 18 = m /\ at - k - 18 = m - 1
  BY <1>3, <1>4, PopPlaces
<1>6. Leaving(e, Cpu)
  BY <1>2, <1>5, Stages, CpuFields DEF k, at
<1>7. /\ Holds(e, stack, d) /\ rflags = {} /\ v \in Irqs
      /\ \A n \in 1 .. at - k - 18 : regs[Popped[n]] = e.cpu.regs[Popped[n]]
  BY <1>6, CpuFields DEF Leaving, k, at
<1> HIDE DEF d, m
<1>8. Last(stack) = e.cpu.regs[Popped[m]]
  <2>1. d \in 1 .. 23 /\ 0 \in 0 .. d - 1 /\ d - 0 = d
    BY <1>5
  <2>2. stack[Len(stack) - 0] = Word(e, d - 0)
    BY <1>2, <1>7, <2>1, TopHolds
  <2>3. Word(e, d) = e.cpu.regs[Pushed[d - 7]]
    BY <1>5 DEF Word
  <2>4. Len(stack) \in Nat
    BY <1>2, LengthOfSeq DEF PartsOK
  <2>5. Len(stack) - 0 = Len(stack)
    BY <2>4
  <2>6. Popped[m] = Pushed[d - 7]
    BY <1>5, OrderFacts
  <2> QED
    BY <2>1, <2>2, <2>3, <2>5, <2>6, Zenon DEF Last
<1>9. Operand = Popped[m]
  <2>1. Code(v)[k + 17 + m] = Pop(Popped[m])
    BY <1>2, <1>5, CodeFacts DEF LevelOK, k
  <2>2. Code(v)[at].of = Popped[m]
    BY <1>5, <2>1, InstructionFacts, Zenon
  <2> QED
    BY <1>1, <2>2 DEF Operand, at
<1>10. regs' = [regs EXCEPT ![Popped[m]] = e.cpu.regs[Popped[m]]]
  BY <1>8, <1>9 DEF PopStep
<1>11. Holds(e, stack', d - 1)
  <2>1. d \in 1 .. 23 /\ 1 \in 0 .. d
    BY <1>5
  <2>2. Holds(e, SubSeq(stack, 1, Len(stack) - 1), d - 1)
    BY <1>2, <1>7, <2>1, DropHolds
  <2> QED
    BY <2>2 DEF PopStep, Drop
<1>12. /\ rip'.of = v /\ rip'.at = at + 1
       /\ rip' = [of |-> rip'.of, at |-> rip'.at]
  BY <1>1, <1>2, AdvanceParts DEF PopStep, Advance, at
<1>13. UNCHANGED <<rflags, interrupted>>
  BY DEF PopStep
<1>14. \A n \in 1 .. m : regs'[Popped[n]] = e.cpu.regs[Popped[n]]
  <2>1. DOMAIN regs = Registers
    BY <1>2 DEF PartsOK
  <2>2. \A n \in 1 .. m : n \in 1 .. 15 /\ (n = m \/ n \in 1 .. m - 1)
    BY <1>5
  <2>3. \A n \in 1 .. 15 : Popped[n] \in Registers
    <3>1. \A n \in 1 .. 15 : 16 - n \in 1 .. 15
      OBVIOUS
    <3> QED
      BY <3>1, OrderFacts
  <2>4. \A n \in 1 .. m - 1 : regs[Popped[n]] = e.cpu.regs[Popped[n]]
    BY <1>5, <1>7
  <2>5. ASSUME NEW n \in 1 .. m PROVE regs'[Popped[n]] = e.cpu.regs[Popped[n]]
    <3>1. CASE Popped[n] = Popped[m]
      BY <1>5, <1>10, <2>1, <2>3, <3>1
    <3>2. CASE Popped[n] # Popped[m]
      BY <1>10, <2>1, <2>2, <2>3, <2>4, <3>2
    <3> QED
      BY <3>1, <3>2
  <2> QED
    BY <2>5
<1>15. Leaving(e, Cpu')
  BY <1>5, <1>7, <1>11, <1>12, <1>13, <1>14, CpuFields DEF Leaving, k
<1>16. LevelOK(e, Cpu')
  BY <1>2, <1>12, <1>15, CpuFields DEF LevelOK
<1>17. PartsOK'
  <2>1. regs' = [reg \in Registers |-> regs'[reg]]
    BY <1>2, <1>10 DEF PartsOK
  <2> QED
    BY <1>2, <1>11, <1>12, <1>13, <2>1 DEF PartsOK, Holds
<1> QED
  BY <1>1, <1>13, <1>16, <1>17, TopStep

(* The registers that were pushed are all there are.                       *)
LEMMA AllRestored ==
  ASSUME NEW r, NEW t, r = [reg \in Registers |-> r[reg]], t = [reg \in Registers |-> t[reg]],
         \A n \in 1 .. 15 : r[Popped[n]] = t[Popped[n]]
  PROVE  r = t
<1>1. ASSUME NEW reg \in Registers PROVE r[reg] = t[reg]
  <2>1. PICK n \in DOMAIN Pushed : Pushed[n] = reg
    BY DEF Registers, Range
  <2>2. n \in 1 .. 15
    BY DEF Pushed
  <2>3. 16 - n \in 1 .. 15 /\ 16 - (16 - n) = n
    BY <2>2
  <2>4. Popped[16 - n] = reg
    BY <2>1, <2>3, OrderFacts
  <2> QED
    BY <2>3, <2>4
<1> QED
  BY <1>1

(* The add drops vector and error code, and nothing else.                  *)
LEMMA AddStepLevels ==
  ASSUME LevelsOK, AddStep
  PROVE  LevelsOK'
<1> DEFINE e == Last(interrupted)
           v == e.vector
           k == StubLength(v)
           at == rip.at
<1>1. /\ rip # Main /\ rip.of = v /\ at \in 1 .. k + 34 /\ OpAt(at - k) = "add"
  BY StepIsTop DEF AddStep
<1>2. LevelOK(e, Cpu) /\ PartsOK /\ CpuOK(e.cpu) /\ IsSeq(e.cpu.stack)
  BY <1>1, TopFacts DEF CpuOK
<1>3. k \in {1, 2}
  BY DEF StubLength
<1> HIDE DEF k, at
<1>4. at = k + 33
  BY <1>1, <1>3, Positions
<1>5. at \in k + 18 .. k + 33 /\ k + 40 - at = 7 /\ at + 1 = k + 34 /\ at - k - 18 = 15
  BY <1>3, <1>4
<1>6. Leaving(e, Cpu)
  BY <1>2, <1>5, Stages, CpuFields DEF k, at
<1>7. /\ Holds(e, stack, k + 40 - at) /\ rflags = {} /\ v \in Irqs
      /\ \A n \in 1 .. at - k - 18 : regs[Popped[n]] = e.cpu.regs[Popped[n]]
  BY <1>6, CpuFields DEF Leaving, k, at
<1>8. regs = e.cpu.regs
  <2>1. \A n \in 1 .. 15 : regs[Popped[n]] = e.cpu.regs[Popped[n]]
    BY <1>5, <1>7
  <2> QED
    BY <1>2, <2>1, AllRestored DEF PartsOK, CpuOK
<1>9. Holds(e, stack', 5)
  <2>1. Holds(e, stack, 7)
    BY <1>5, <1>7
  <2>2. Holds(e, SubSeq(stack, 1, Len(stack) - 2), 7 - 2)
    BY <1>2, <2>1, DropHolds
  <2> QED
    BY <2>2 DEF AddStep, Drop
<1>10. /\ rip'.of = v /\ rip'.at = k + 34
       /\ rip' = [of |-> rip'.of, at |-> rip'.at]
  BY <1>1, <1>2, <1>5, AdvanceParts DEF AddStep, Advance, at
<1>11. UNCHANGED <<regs, rflags, interrupted>>
  BY DEF AddStep
<1>12. Returning(e, Cpu')
  BY <1>7, <1>8, <1>9, <1>10, <1>11, CpuFields DEF Returning, k
<1>13. LevelOK(e, Cpu')
  BY <1>2, <1>10, <1>12, CpuFields DEF LevelOK
<1>14. PartsOK'
  BY <1>2, <1>9, <1>10, <1>11 DEF PartsOK, Holds
<1> QED
  BY <1>1, <1>11, <1>13, <1>14, TopStep

---------------------------------------------------------------------------
(* A handler runs with interrupts off, so that what it interrupted is the  *)
(* main thread if it may return.                                           *)
LEMMA HandlersAreMasked ==
  ASSUME NEW e, NEW c, LevelOK(e, c)
  PROVE  "IF" \notin c.rflags
BY DEF LevelOK, Entering, Handling, Leaving, Returning

(* What iretq pops is what the CPU pushed; only the outermost handler gets *)
(* there.                                                                  *)
LEMMA IretqRestores ==
  ASSUME LevelsOK, IretqStep
  PROVE  /\ Cpu' = Last(interrupted).cpu /\ Len(interrupted) = 1
         /\ IsSeq(interrupted') /\ Len(interrupted)' = 0
<1> DEFINE e == Last(interrupted)
           v == e.vector
           k == StubLength(v)
           at == rip.at
           b == Len(e.cpu.stack)
<1>0. PICK n \in Nat \ {0} : n = Len(interrupted)
  BY StepIsTop, TopFacts DEF IretqStep
<1>1. /\ rip # Main /\ rip.of = v /\ at \in 1 .. k + 34 /\ OpAt(at - k) = "iretq"
  BY StepIsTop DEF IretqStep
<1>2. LevelOK(e, Cpu) /\ PartsOK /\ CpuOK(e.cpu) /\ IsSeq(e.cpu.stack)
  BY <1>1, TopFacts DEF CpuOK
<1>3. k \in {1, 2}
  BY DEF StubLength
<1> HIDE DEF k, at
<1>4. at = k + 34
  BY <1>1, <1>3, Positions
<1>5. Returning(e, Cpu)
  BY <1>2, <1>4, Stages, CpuFields DEF k, at
<1>6. Holds(e, stack, 5) /\ regs = e.cpu.regs /\ v \in Irqs
  BY <1>5, CpuFields DEF Returning
<1>7. n = 1
  <2>1. "IF" \in e.cpu.rflags
    BY <1>2, <1>6 DEF LevelOK
  <2>2. e.cpu = CpuAt(n - 1)
    BY <1>0, <1>1, TopFacts
  <2>3. CASE n - 1 \in 1 .. n
    <3>1. LevelOK(interrupted[n - 1], CpuAt(n - 1))
      BY <1>0, <2>3 DEF LevelsOK
    <3> QED
      BY <2>1, <2>2, <3>1, HandlersAreMasked
  <2>4. CASE n - 1 \notin 1 .. n
    BY <2>4
  <2> QED
    BY <2>3, <2>4
<1>8. /\ stack[Len(stack)] = e.cpu.rip /\ stack[Len(stack) - 2] = e.cpu.rflags
      /\ stack[Len(stack) - 3] = b
  <2>1. \A j \in 0 .. 4 : stack[Len(stack) - j] = Word(e, 5 - j)
    BY <1>2, <1>6, TopHolds
  <2>2. Word(e, 5) = e.cpu.rip /\ Word(e, 3) = e.cpu.rflags /\ Word(e, 2) = b
    BY DEF Word
  <2>3. Len(stack) \in Nat
    BY <1>2, LengthOfSeq DEF PartsOK
  <2>4. Len(stack) - 0 = Len(stack)
    BY <2>3
  <2>5. /\ stack[Len(stack) - 0] = Word(e, 5) /\ stack[Len(stack) - 2] = Word(e, 3)
        /\ stack[Len(stack) - 3] = Word(e, 2)
    <3>1. 5 - 0 = 5 /\ 5 - 2 = 3 /\ 5 - 3 = 2 /\ 0 \in 0 .. 4 /\ 2 \in 0 .. 4 /\ 3 \in 0 .. 4
      OBVIOUS
    <3> QED
      BY <2>1, <3>1
  <2> QED
    BY <2>2, <2>4, <2>5, Zenon
<1>9. stack' = e.cpu.stack
  <2>1. stack' = SubSeq(stack, 1, b)
    BY <1>8 DEF IretqStep
  <2>2. b \in 0 .. Len(stack) /\ IsSeq(stack)
    <3>1. b \in Nat /\ Bottom(e.cpu.stack) \in Nat /\ b <= Bottom(e.cpu.stack)
      BY <1>2, BottomFacts
    <3>2. Len(stack) = Bottom(e.cpu.stack) + 5
      BY <1>6 DEF Holds
    <3> HIDE DEF b
    <3>3. b \in 0 .. Len(stack)
      BY <3>1, <3>2
    <3> QED
      BY <1>2, <3>3 DEF PartsOK
  <2>3. IsSeq(stack') /\ Len(stack') = b /\ \A j \in 1 .. b : stack'[j] = stack[j]
    BY <2>1, <2>2, PrefixFacts
  <2>4. \A j \in 1 .. b : stack[j] = e.cpu.stack[j]
    BY <1>6 DEF Holds
  <2> QED
    BY <1>2, <2>3, <2>4, SeqsEqual
<1>10. Cpu' = e.cpu
  <2>1. rip' = e.cpu.rip /\ rflags' = e.cpu.rflags /\ regs' = e.cpu.regs
    BY <1>6, <1>8 DEF IretqStep
  <2>2. Cpu' = [regs |-> regs', rip |-> rip', rflags |-> rflags', stack |-> stack']
    BY DEF Cpu
  <2> QED
    BY <1>2, <1>9, <2>1, <2>2, Zenon DEF CpuOK
<1>11. IsSeq(interrupted') /\ Len(interrupted') = 0
  <2>1. interrupted' = SubSeq(interrupted, 1, 0)
    BY <1>0, <1>7 DEF IretqStep, Front
  <2>2. 0 \in 0 .. Len(interrupted) /\ IsSeq(interrupted)
    BY <1>0 DEF LevelsOK
  <2> QED
    BY <2>1, <2>2, PrefixFacts
<1> QED
  BY <1>0, <1>7, <1>10, <1>11

(* The main thread goes on, outside every handler.                         *)
LEMMA IretqStepLevels ==
  ASSUME LevelsOK, IretqStep
  PROVE  LevelsOK'
<1>1. /\ Cpu' = Last(interrupted).cpu /\ Len(interrupted) = 1
      /\ IsSeq(interrupted') /\ Len(interrupted)' = 0
  BY IretqRestores
<1>2. rip # Main
  BY StepIsTop DEF IretqStep
<1>3. Last(interrupted).cpu = CpuAt(0)
  BY <1>1, <1>2, TopFacts
<1>4. CpuAt(0)' = Cpu'
  BY <1>1 DEF CpuAt
<1>5. CpuAt(0)' = CpuAt(0)
  BY <1>1, <1>3, <1>4
<1>6. CpuAt(0).rip = Main /\ CpuOK(CpuAt(0)) /\ Len(CpuAt(0).stack) <= 1 + 24 * 0
  BY <1>1 DEF LevelsOK
<1>7. (0 .. 0) = {0} /\ (1 .. 0) = {}
  OBVIOUS
<1> QED
  BY <1>1, <1>5, <1>6, <1>7 DEF LevelsOK

(* Only an interrupt leaves the main thread.                               *)
LEMMA MainIsBottom ==
  ASSUME LevelsOK, rip = Main
  PROVE  Len(interrupted) = 0
<1>1. PICK n \in Nat : n = Len(interrupted)
  BY LengthOfSeq DEF LevelsOK
<1>2. CASE n # 0
  <2>1. LevelOK(interrupted[n], CpuAt(n)) /\ CpuAt(n) = Cpu
    BY <1>1, <1>2 DEF LevelsOK, CpuAt
  <2> QED
    BY <2>1, CpuFields, EntryAssumption DEF LevelOK, Main, NoVector, Vectors
<1> QED
  BY <1>1, <1>2

(* The stacks of the main thread.                                          *)
LEMMA MainStacks ==
  ASSUME NEW s \in {<<>>, <<"local">>}
  PROVE  IsSeq(s) /\ Len(s) <= 1
<1>1. CASE s = <<>>
  <2>1. s \in Seq({"local"}) /\ Len(s) = 0
    BY <1>1
  <2> QED
    BY <2>1 DEF IsSeq
<1>2. CASE s = <<"local">>
  <2>1. s \in Seq({"local"}) /\ Len(s) = 1
    BY <1>2
  <2> QED
    BY <2>1 DEF IsSeq
<1> QED
  BY <1>1, <1>2

(* The main thread computes while nothing is interrupted.                  *)
LEMMA ComputeLevels ==
  ASSUME LevelsOK, Compute
  PROVE  LevelsOK'
<1>1. Len(interrupted) = 0 /\ Len(interrupted)' = 0 /\ IsSeq(interrupted')
  BY MainIsBottom DEF Compute, LevelsOK
<1>2. CpuAt(0)' = Cpu'
  BY <1>1 DEF CpuAt
<1>3. IsSeq(stack') /\ Len(stack') <= 1
  BY MainStacks DEF Compute
<1>4. PartsOK'
  <2>1. regs' = [reg \in Registers |-> regs'[reg]]
    BY DEF Compute, Values
  <2>2. rip' = [of |-> rip'.of, at |-> rip'.at] /\ rflags' \subseteq {"IF", "DF"}
    BY DEF Compute, Main
  <2> QED
    BY <1>3, <2>1, <2>2 DEF PartsOK
<1>5. Cpu'.rip = Main /\ CpuOK(Cpu') /\ Len(Cpu'.stack) <= 1 + 24 * 0
  BY <1>3, <1>4, CpuPartsNext, CpuFields DEF Compute
<1>6. (0 .. 0) = {0} /\ (1 .. 0) = {}
  OBVIOUS
<1> QED
  BY <1>1, <1>2, <1>5, <1>6 DEF LevelsOK

(* Nothing is interrupted at first.                                        *)
LEMMA InitLevels ==
  ASSUME Init
  PROVE  LevelsOK
<1>1. Len(interrupted) = 0 /\ IsSeq(interrupted)
  BY DEF Init, IsSeq
<1>2. CpuAt(0) = Cpu
  BY <1>1 DEF CpuAt
<1>3. IsSeq(stack) /\ Len(stack) <= 1
  BY MainStacks DEF Init
<1>4. PartsOK
  <2>1. regs = [reg \in Registers |-> regs[reg]]
    BY DEF Init, Values
  <2>2. rip = [of |-> rip.of, at |-> rip.at] /\ rflags \subseteq {"IF", "DF"}
    BY DEF Init, Main
  <2> QED
    BY <1>3, <2>1, <2>2 DEF PartsOK
<1>5. Cpu.rip = Main /\ CpuOK(Cpu) /\ Len(Cpu.stack) <= 1 + 24 * 0
  BY <1>3, <1>4, CpuParts, CpuFields DEF Init
<1>6. (0 .. 0) = {0} /\ (1 .. 0) = {}
  OBVIOUS
<1> QED
  BY <1>1, <1>2, <1>5, <1>6 DEF LevelsOK

(* The CPU puts its words on the stack it has aligned.                     *)
LEMMA AlignedFacts ==
  ASSUME NEW s, IsSeq(s)
  PROVE  LET aligned == IF Len(s) % 2 = 0 THEN s ELSE Append(s, "pad")
         IN  /\ IsSeq(aligned) /\ Len(aligned) = Bottom(s)
             /\ \A j \in 1 .. Len(s) : aligned[j] = s[j]
<1>1. CASE Len(s) % 2 = 0
  BY <1>1 DEF Bottom
<1>2. CASE Len(s) % 2 # 0
  BY <1>2, AppendFacts DEF Bottom
<1> QED
  BY <1>1, <1>2

(* The words of one sequence on top of another.                            *)
LEMMA OnTop ==
  ASSUME NEW s, NEW t, IsSeq(s), IsSeq(t)
  PROVE  /\ IsSeq(s \o t) /\ Len(s \o t) = Len(s) + Len(t)
         /\ \A i \in 1 .. Len(s) : (s \o t)[i] = s[i]
         /\ \A i \in 1 .. Len(t) : (s \o t)[Len(s) + i] = t[i]
<1>1. PICK S : s \in Seq(S)
  BY DEF IsSeq
<1>2. PICK T : t \in Seq(T)
  BY DEF IsSeq
<1> DEFINE U == S \union T
<1>3. s \in Seq(U) /\ t \in Seq(U)
  BY <1>1, <1>2
<1> HIDE DEF U
<1> QED
  BY <1>3, ConcatFacts DEF IsSeq

(* The frames of the CPU are sequences.                                    *)
LEMMA TupleIsSeq ==
  \A a, b, c, d, f : IsSeq(<<a, b, c, d, f>>) /\ IsSeq(<<a>>) /\ IsSeq(<<>>)
<1> SUFFICES ASSUME NEW a, NEW b, NEW c, NEW d, NEW f
             PROVE  IsSeq(<<a, b, c, d, f>>) /\ IsSeq(<<a>>) /\ IsSeq(<<>>)
  OBVIOUS
<1>1. <<a, b, c, d, f>> \in Seq({a, b, c, d, f})
  OBVIOUS
<1>2. <<a>> \in Seq({a}) /\ <<>> \in Seq({a})
  OBVIOUS
<1>3. IsSeq(<<a>>)
  BY <1>2 DEF IsSeq
<1>4. IsSeq(<<>>)
  BY <1>2 DEF IsSeq
<1> QED
  BY <1>1, <1>3, <1>4 DEF IsSeq

(* What the CPU pushes is the bottom of the frame.                         *)
LEMMA FrameHolds ==
  ASSUME NEW e, IsSeq(e.cpu.stack), NEW aligned, IsSeq(aligned),
         Len(aligned) = Bottom(e.cpu.stack),
         \A j \in 1 .. Len(e.cpu.stack) : aligned[j] = e.cpu.stack[j]
  PROVE  LET saved == <<DataSelector, Len(e.cpu.stack), e.cpu.rflags, CodeSelector, e.cpu.rip>>
         IN  Holds(e, aligned \o saved, 5) /\ Holds(e, (aligned \o saved) \o <<e.code>>, 6)
<1> DEFINE saved == <<DataSelector, Len(e.cpu.stack), e.cpu.rflags, CodeSelector, e.cpu.rip>>
           low == aligned \o saved
           tail == <<e.code>>
           full == low \o tail
           b == Bottom(e.cpu.stack)
<1>1. /\ IsSeq(saved) /\ Len(saved) = 5 /\ \A j \in 1 .. 5 : saved[j] = Word(e, j)
      /\ IsSeq(tail) /\ Len(tail) = 1 /\ tail[1] = Word(e, 6)
  <2>1. IsSeq(saved) /\ IsSeq(tail)
    BY TupleIsSeq
  <2>2. \A j \in 1 .. 5 : saved[j] = Word(e, j)
    <3>1. /\ saved[1] = Word(e, 1) /\ saved[2] = Word(e, 2) /\ saved[3] = Word(e, 3)
          /\ saved[4] = Word(e, 4) /\ saved[5] = Word(e, 5)
      BY DEF Word
    <3> HIDE DEF saved
    <3>2. \A j \in 1 .. 5 : j = 1 \/ j = 2 \/ j = 3 \/ j = 4 \/ j = 5
      OBVIOUS
    <3> QED
      BY <3>1, <3>2
  <2>3. tail[1] = Word(e, 6)
    BY DEF Word
  <2> QED
    BY <2>1, <2>2, <2>3
<1>2. Len(e.cpu.stack) \in Nat /\ b \in Nat /\ Len(e.cpu.stack) <= b
  BY BottomFacts
<1> HIDE DEF saved, tail
<1>3. /\ IsSeq(low) /\ Len(low) = Len(aligned) + Len(saved)
      /\ \A i \in 1 .. Len(aligned) : low[i] = aligned[i]
      /\ \A i \in 1 .. Len(saved) : low[Len(aligned) + i] = saved[i]
  <2>1. IsSeq(aligned) /\ IsSeq(saved)
    BY <1>1
  <2> QED
    BY <2>1, OnTop
<1> HIDE DEF low
<1>4. /\ IsSeq(full) /\ Len(full) = Len(low) + Len(tail)
      /\ \A i \in 1 .. Len(low) : full[i] = low[i]
      /\ \A i \in 1 .. Len(tail) : full[Len(low) + i] = tail[i]
  <2>1. IsSeq(low) /\ IsSeq(tail)
    BY <1>1, <1>3
  <2> QED
    BY <2>1, OnTop
<1> HIDE DEF full, b
<1>5. /\ Len(low) = b + 5
      /\ \A i \in 1 .. b : low[i] = aligned[i]
      /\ \A i \in 1 .. 5 : low[b + i] = Word(e, i)
  BY <1>1, <1>3 DEF b
<1>6. /\ Len(full) = b + 6
      /\ \A i \in 1 .. b + 5 : full[i] = low[i]
      /\ full[b + 6] = Word(e, 6)
  <2>1. 1 \in 1 .. Len(tail) /\ (b + 5) + 1 = b + 6
    BY <1>1, <1>2
  <2>2. Len(full) = b + 6 /\ \A i \in 1 .. b + 5 : full[i] = low[i]
    BY <1>1, <1>2, <1>4, <1>5
  <2>3. full[(b + 5) + 1] = tail[1]
    BY <1>4, <1>5, <2>1
  <2> QED
    BY <1>1, <2>1, <2>2, <2>3
<1>7. \A j \in 1 .. Len(e.cpu.stack) : j \in 1 .. b /\ j \in 1 .. b + 5
  BY <1>2
<1>8. \A j \in 1 .. Len(e.cpu.stack) : low[j] = e.cpu.stack[j] /\ full[j] = e.cpu.stack[j]
  BY <1>5, <1>6, <1>7
<1>9. \A j \in 1 .. 6 : full[b + j] = Word(e, j)
  <2>1. \A j \in 1 .. 5 : b + j \in 1 .. b + 5
    BY <1>2
  <2>2. \A j \in 1 .. 5 : full[b + j] = Word(e, j)
    BY <1>5, <1>6, <2>1
  <2>3. \A j \in 1 .. 6 : j \in 1 .. 5 \/ j = 6
    OBVIOUS
  <2> QED
    BY <1>6, <2>2, <2>3
<1>10. Holds(e, low, 5)
  BY <1>3, <1>5, <1>8 DEF Holds, b
<1>11. Holds(e, full, 6)
  BY <1>4, <1>6, <1>8, <1>9 DEF Holds, b
<1> QED
  BY <1>10, <1>11 DEF full, low, tail, saved

(* Nothing on top of a sequence leaves it as it is.                        *)
LEMMA NothingOnTop ==
  ASSUME NEW s, IsSeq(s)
  PROVE  s \o <<>> = s
<1>1. PICK S : s \in Seq(S)
  BY DEF IsSeq
<1> QED
  BY <1>1

(* The CPU's frame is the first part of the level's, at the stub's first   *)
(* instruction.                                                            *)
LEMMA InterruptEnters ==
  ASSUME LevelsOK, PartsOK, NEW v \in Vectors, NEW code, Interrupt(v, code)
  PROVE  /\ LevelOK([cpu |-> Cpu, vector |-> v,
                     code |-> IF v \in HasErrorCode THEN code ELSE 0], Cpu')
         /\ PartsOK'
<1> DEFINE e == [cpu |-> Cpu, vector |-> v, code |-> IF v \in HasErrorCode THEN code ELSE 0]
           k == StubLength(v)
           aligned == IF Len(stack) % 2 = 0 THEN stack ELSE Append(stack, "pad")
           saved == <<DataSelector, Len(stack), rflags, CodeSelector, rip>>
           low == aligned \o saved
<1>1. /\ e.cpu = Cpu /\ e.vector = v /\ (v \in HasErrorCode => e.code = code)
      /\ v \notin HasErrorCode => e.code = 0
  OBVIOUS
<1>2. IsSeq(stack) /\ rflags \subseteq {"IF", "DF"}
  BY DEF PartsOK
<1>3. /\ IsSeq(aligned) /\ Len(aligned) = Bottom(stack)
      /\ \A j \in 1 .. Len(stack) : aligned[j] = stack[j]
  BY <1>2, AlignedFacts
<1>4. /\ stack' = low \o (IF v \in HasErrorCode THEN <<code>> ELSE <<>>)
      /\ rflags' = (IF "interrupt" \in Idt(v).attributes THEN rflags \ {"IF"} ELSE rflags)
      /\ rip' = [of |-> StubAt(Address(Idt(v))), at |-> 1]
      /\ v \in Irqs => "IF" \in rflags
      /\ UNCHANGED regs
  BY DEF Interrupt
<1>5. rflags' = rflags \ {"IF"} /\ rip' = [of |-> v, at |-> 1]
  BY <1>4, GateLeadsToStub
<1> HIDE DEF e, k, aligned, saved, low
<1>6. Holds(e, low, 5) /\ Holds(e, low \o <<e.code>>, 6)
  <2>1. /\ IsSeq(e.cpu.stack) /\ Len(aligned) = Bottom(e.cpu.stack)
        /\ \A j \in 1 .. Len(e.cpu.stack) : aligned[j] = e.cpu.stack[j]
    BY <1>1, <1>2, <1>3, CpuFields
  <2>2. saved = <<DataSelector, Len(e.cpu.stack), e.cpu.rflags, CodeSelector, e.cpu.rip>>
    BY <1>1, CpuFields DEF saved
  <2> QED
    BY <1>3, <2>1, <2>2, FrameHolds DEF low
<1>7. /\ v \in HasErrorCode => k = 1
      /\ v \notin HasErrorCode => k = 2
  BY EntryAssumption DEF HasErrorCode, k, StubLength, ErrorCodeHandlers, Vectors
<1>8. Holds(e, stack', 7 - k)
  <2>1. CASE v \in HasErrorCode
    <3>1. stack' = low \o <<e.code>>
      BY <1>1, <1>4, <2>1
    <3>2. 7 - k = 6
      BY <1>7, <2>1
    <3> QED
      BY <1>6, <3>1, <3>2
  <2>2. CASE v \notin HasErrorCode
    <3>1. stack' = low \o <<>>
      BY <1>4, <2>2
    <3>2. IsSeq(low)
      BY <1>6 DEF Holds
    <3>3. stack' = low
      BY <3>1, <3>2, NothingOnTop
    <3>4. 7 - k = 5
      BY <1>7, <2>2
    <3> QED
      BY <1>6, <3>3, <3>4
  <2> QED
    BY <2>1, <2>2
<1>9. k \in {1, 2} /\ 1 \in 1 .. k + 16 /\ 1 + 6 - k = 7 - k
  BY <1>7
<1>10. /\ Cpu'.rip.of = v /\ Cpu'.rip.at = 1 /\ Cpu'.stack = stack'
       /\ Cpu'.regs = e.cpu.regs /\ Cpu'.rflags = e.cpu.rflags \ {"IF"}
  BY <1>1, <1>4, <1>5, CpuFields
<1>11. Entering(e, Cpu')
  <2>1. Cpu'.rip.at \in 1 .. k + 16
    BY <1>9, <1>10, Zenon
  <2>2. Holds(e, Cpu'.stack, Cpu'.rip.at + 6 - k)
    BY <1>8, <1>9, <1>10, Zenon
  <2> QED
    BY <1>1, <1>10, <2>1, <2>2, Zenon DEF Entering, k
<1>12. LevelOK(e, Cpu')
  BY <1>1, <1>4, <1>10, <1>11, CpuFields DEF LevelOK
<1>13. PartsOK'
  <2>1. IsSeq(stack')
    BY <1>8 DEF Holds
  <2>2. regs' = [reg \in Registers |-> regs'[reg]]
    BY <1>4 DEF PartsOK
  <2> QED
    BY <1>2, <1>5, <2>1, <2>2 DEF PartsOK
<1> QED
  BY <1>12, <1>13 DEF e

(* The level that is interrupted stays as it was on the stack of levels.   *)
LEMMA InterruptLevels ==
  ASSUME LevelsOK, NEW v \in Vectors, NEW code, Interrupt(v, code)
  PROVE  /\ LevelsOK' /\ IsSeq(interrupted)
         /\ Len(interrupted)' = Len(interrupted) + 1
<1> DEFINE e == [cpu |-> Cpu, vector |-> v, code |-> IF v \in HasErrorCode THEN code ELSE 0]
<1>1. PICK n \in Nat : n = Len(interrupted)
  BY LengthOfSeq DEF LevelsOK
<1>2. CpuAt(n) = Cpu
  BY <1>1 DEF CpuAt
<1>3. CpuOK(Cpu) /\ Len(stack) <= 1 + 24 * n
  BY <1>1, <1>2, CpuFields DEF LevelsOK
<1>4. PartsOK /\ IsSeq(stack)
  BY <1>3, CpuParts DEF PartsOK
<1>5. LevelOK(e, Cpu') /\ PartsOK'
  BY <1>4, InterruptEnters
<1>6. e.cpu = Cpu /\ interrupted' = Append(interrupted, e)
  BY DEF Interrupt
<1> HIDE DEF e
<1>7. /\ IsSeq(interrupted') /\ Len(interrupted') = n + 1
      /\ \A k \in 1 .. n : interrupted'[k] = interrupted[k]
      /\ interrupted'[n + 1] = e
  BY <1>1, <1>6, AppendFacts DEF LevelsOK
<1>8. CpuAt(n + 1)' = Cpu'
  BY <1>7 DEF CpuAt
<1>9. CpuAt(n)' = CpuAt(n)
  <2>1. CpuAt(n)' = interrupted'[n + 1].cpu
    BY <1>1, <1>7 DEF CpuAt
  <2> QED
    BY <1>2, <1>6, <1>7, <2>1
<1>10. ASSUME NEW k \in 0 .. n, k # n PROVE CpuAt(k)' = CpuAt(k)
  <2>1. k < n /\ k < n + 1 /\ k + 1 \in 1 .. n
    BY <1>1, <1>10
  <2>2. CpuAt(k) = interrupted[k + 1].cpu
    BY <1>1, <2>1 DEF CpuAt
  <2>3. CpuAt(k)' = interrupted'[k + 1].cpu
    BY <1>7, <2>1 DEF CpuAt
  <2> QED
    BY <1>7, <2>1, <2>2, <2>3
<1>11. \A k \in 0 .. n : CpuAt(k)' = CpuAt(k)
  BY <1>9, <1>10
<1>12. CpuOK(Cpu') /\ Len(Cpu'.stack) <= 1 + 24 * (n + 1)
  <2>1. IsSeq(e.cpu.stack) /\ Len(e.cpu.stack) = Len(stack) /\ Len(stack) \in Nat
    BY <1>4, <1>6, CpuFields, LengthOfSeq
  <2>2. Len(Cpu'.stack) <= Len(e.cpu.stack) + 24 /\ Len(Cpu'.stack) \in Nat
    BY <1>5, <2>1, LevelLength
  <2>3. Len(Cpu'.stack) <= 1 + 24 * (n + 1)
    BY <1>3, <2>1, <2>2
  <2> QED
    BY <1>5, <2>3, CpuPartsNext
<1>13. \A k \in 0 .. n + 1 : k \in 0 .. n \/ k = n + 1
  OBVIOUS
<1>14. \A k \in 1 .. n + 1 : (k \in 1 .. n /\ k \in 0 .. n) \/ k = n + 1
  OBVIOUS
<1>15. ASSUME NEW k \in 0 .. n + 1
       PROVE  CpuOK(CpuAt(k)') /\ Len(CpuAt(k)'.stack) <= 1 + 24 * k
  <2>1. CASE k \in 0 .. n
    BY <1>1, <1>11, <2>1 DEF LevelsOK
  <2>2. CASE k = n + 1
    BY <1>8, <1>12, <2>2
  <2> QED
    BY <1>13, <2>1, <2>2
<1>16. ASSUME NEW k \in 1 .. n + 1 PROVE LevelOK(interrupted'[k], CpuAt(k)')
  <2>1. CASE k \in 1 .. n /\ k \in 0 .. n
    <3>1. LevelOK(interrupted[k], CpuAt(k))
      BY <1>1, <2>1 DEF LevelsOK
    <3> QED
      BY <1>7, <1>11, <2>1, <3>1
  <2>2. CASE k = n + 1
    BY <1>5, <1>7, <1>8, <2>2
  <2> QED
    BY <1>14, <2>1, <2>2
<1>17. CpuAt(0)'.rip = Main
  <2>1. 0 \in 0 .. n
    BY <1>1
  <2> QED
    BY <1>11, <2>1 DEF LevelsOK
<1>18. LevelsOK'
  BY <1>7, <1>15, <1>16, <1>17 DEF LevelsOK
<1> QED
  BY <1>1, <1>7, <1>18 DEF LevelsOK

---------------------------------------------------------------------------
(* The struct over a whole frame shows what was interrupted.               *)
LEMMA StructShows ==
  ASSUME NEW e, IsSeq(e.cpu.stack), NEW s, Holds(e, s, 22)
  PROVE  /\ \A reg \in Registers : Struct(s)[reg] = e.cpu.regs[reg]
         /\ Struct(s).isr_number = e.vector /\ Struct(s).error_code = e.code
         /\ Struct(s).rip = e.cpu.rip /\ Struct(s).cs = CodeSelector
         /\ Struct(s).rflags = e.cpu.rflags /\ Struct(s).rsp = Len(e.cpu.stack)
         /\ Struct(s).ss = DataSelector
<1>1. \A n \in 1 .. 22 : Struct(s)[FieldNames[n]] = Word(e, 23 - n)
  <2>1. SUFFICES ASSUME NEW n \in 1 .. 22 PROVE Struct(s)[FieldNames[n]] = Word(e, 23 - n)
    OBVIOUS
  <2>2. Len(s) \in Nat
    BY LengthOfSeq DEF Holds
  <2>3. Struct(s)[FieldNames[n]] = s[Len(s) + 1 - n]
    BY StructFacts
  <2>4. \A j \in 0 .. 21 : s[Len(s) - j] = Word(e, 22 - j)
    <3>1. 22 \in 1 .. 23 /\ 22 - 1 = 21
      OBVIOUS
    <3>2. \A j \in 0 .. 22 - 1 : s[Len(s) - j] = Word(e, 22 - j)
      BY <3>1, TopHolds
    <3> QED
      BY <3>1, <3>2, Zenon
  <2>5. /\ n - 1 \in 0 .. 21 /\ Len(s) - (n - 1) = Len(s) + 1 - n
        /\ 22 - (n - 1) = 23 - n
    BY <2>2
  <2>6. s[Len(s) - (n - 1)] = Word(e, 22 - (n - 1))
    BY <2>4, <2>5, Zenon
  <2> QED
    BY <2>3, <2>5, <2>6, Zenon
<1>2. ASSUME NEW reg \in Registers PROVE Struct(s)[reg] = e.cpu.regs[reg]
  <2>1. PICK m \in DOMAIN Pushed : Pushed[m] = reg
    BY DEF Registers, Range
  <2>2. m \in 1 .. 15
    BY DEF Pushed
  <2>3. /\ 16 - m \in 1 .. 15 /\ 16 - m \in 1 .. 22 /\ 16 - (16 - m) = m
        /\ 23 - (16 - m) = m + 7 /\ m + 7 \in 8 .. 22 /\ (m + 7) - 7 = m
    BY <2>2
  <2>4. \A n \in 1 .. 15 : FieldNames[n] = Popped[n]
    BY DEF FieldNames, Popped
  <2>5. FieldNames[16 - m] = reg
    BY <2>1, <2>3, <2>4, OrderFacts
  <2>6. Word(e, m + 7) = e.cpu.regs[reg]
    BY <2>1, <2>3 DEF Word
  <2>7. Struct(s)[FieldNames[16 - m]] = Word(e, 23 - (16 - m))
    BY <1>1, <2>3, Zenon
  <2> QED
    BY <2>3, <2>5, <2>6, <2>7, Zenon
<1>3. /\ Struct(s)[FieldNames[16]] = Word(e, 7) /\ Struct(s)[FieldNames[17]] = Word(e, 6)
      /\ Struct(s)[FieldNames[18]] = Word(e, 5) /\ Struct(s)[FieldNames[19]] = Word(e, 4)
      /\ Struct(s)[FieldNames[20]] = Word(e, 3) /\ Struct(s)[FieldNames[21]] = Word(e, 2)
      /\ Struct(s)[FieldNames[22]] = Word(e, 1)
  <2>1. /\ \A n \in 16 .. 22 : n \in 1 .. 22
        /\ 23 - 16 = 7 /\ 23 - 17 = 6 /\ 23 - 18 = 5 /\ 23 - 19 = 4 /\ 23 - 20 = 3
        /\ 23 - 21 = 2 /\ 23 - 22 = 1
        /\ 16 \in 1 .. 22 /\ 17 \in 1 .. 22 /\ 18 \in 1 .. 22 /\ 19 \in 1 .. 22
        /\ 20 \in 1 .. 22 /\ 21 \in 1 .. 22 /\ 22 \in 1 .. 22
    OBVIOUS
  <2> QED
    BY <1>1, <2>1
<1>4. /\ FieldNames[16] = "isr_number" /\ FieldNames[17] = "error_code"
      /\ FieldNames[18] = "rip" /\ FieldNames[19] = "cs" /\ FieldNames[20] = "rflags"
      /\ FieldNames[21] = "rsp" /\ FieldNames[22] = "ss"
  BY DEF FieldNames
<1>5. /\ Word(e, 7) = e.vector /\ Word(e, 6) = e.code /\ Word(e, 5) = e.cpu.rip
      /\ Word(e, 4) = CodeSelector /\ Word(e, 3) = e.cpu.rflags
      /\ Word(e, 2) = Len(e.cpu.stack) /\ Word(e, 1) = DataSelector
  BY DEF Word
<1> QED
  BY <1>2, <1>3, <1>4, <1>5

(* generic_handler is running: where its frame is.                         *)
LEMMA CallingFacts ==
  ASSUME LevelsOK, Calling
  PROVE  /\ Len(interrupted) \in Nat \ {0}
         /\ Last(interrupted) = interrupted[Len(interrupted)]
         /\ Holds(Last(interrupted), stack, 23) /\ rflags = {}
         /\ IsSeq(Last(interrupted).cpu.stack)
<1> DEFINE e == Last(interrupted)
           k == StubLength(e.vector)
<1>1. rip # Main /\ rip.at = 0
  BY DEF Calling, Main
<1>2. LevelOK(e, Cpu) /\ CpuOK(e.cpu)
  BY <1>1, TopFacts
<1>3. Handling(e, Cpu)
  BY <1>1, <1>2, Stages, CpuFields
<1>4. k \in {1, 2}
  BY DEF StubLength
<1> HIDE DEF k
<1>5. k + 17 # 0
  BY <1>4
<1>6. Holds(e, stack, 23) /\ rflags = {}
  BY <1>1, <1>3, <1>5, CpuFields DEF Handling, k
<1> QED
  BY <1>1, <1>2, <1>6, TopFacts DEF CpuOK

---------------------------------------------------------------------------
(* The call saves what it was called with, and only returns to a line.     *)
LEMMA CallStepHandler ==
  ASSUME IInv, CallStep
  PROVE  HandlerOK'
<1> DEFINE e == Last(interrupted)
<1>1. /\ LevelsOK' /\ Holds(e, stack, 22) /\ rip # Main /\ UNCHANGED interrupted
      /\ stack' = Append(stack, StubLength(rip.of) + 18)
  BY CallStepLevels DEF IInv
<1>2. LevelOK(e, Cpu) /\ PartsOK /\ IsSeq(e.cpu.stack)
  BY <1>1, TopFacts DEF CpuOK, IInv
<1>3. Struct(stack).isr_number = e.vector /\ Struct(stack).error_code = e.code
  BY <1>1, <1>2, StructShows
<1>4. Front(stack') = stack
  BY <1>1, <1>2, AppendFacts DEF PartsOK
<1>5. status = "on" /\ report = NoReport
  BY DEF CallStep, Step, IInv, HandlerOK
<1>6. e.vector \in Vectors
  BY <1>2 DEF LevelOK
<1> HIDE DEF e
<1>7. /\ context' = Struct(stack)
      /\ IF e.vector \in 32 .. 47
           THEN status' = status /\ report' = report
           ELSE /\ status' = "halted"
                /\ report' = IF e.vector = 14 THEN PageFaultFlags(e.code) ELSE report
  BY <1>3 DEF CallStep
<1>8. status' \in {"on", "halted"} /\ (status' = "on" => e.vector \in Irqs)
  <2>1. e.vector \in 32 .. 47 => e.vector \in Irqs
    BY <1>6, EntryAssumption DEF Vectors
  <2>2. CASE e.vector \in 32 .. 47
    BY <1>5, <1>7, <2>1, <2>2
  <2>3. CASE e.vector \notin 32 .. 47
    BY <1>7, <2>3
  <2> QED
    BY <2>2, <2>3
<1>9. report' # NoReport => status' = "halted" /\ report' = PageFaultFlags(e.code)
  <2>1. CASE e.vector \in 32 .. 47
    BY <1>5, <1>7, <2>1
  <2>2. CASE e.vector \notin 32 .. 47
    BY <1>5, <1>7, <2>2
  <2> QED
    BY <2>1, <2>2
<1>10. context' = Struct(Front(stack'))
  BY <1>4, <1>7
<1>11. Last(interrupted)' = e
  BY <1>1 DEF e
<1> QED
  BY <1>8, <1>9, <1>10, <1>11 DEF HandlerOK

(* No other step starts generic_handler or prints a report.                *)
LEMMA QuietStepHandler ==
  ASSUME IInv, status = "on", UNCHANGED <<status, report>>, ~Calling'
  PROVE  HandlerOK'
BY DEF IInv, HandlerOK

(* Behind an instruction other than the call no handler is being called.   *)
LEMMA AdvanceQuiet ==
  ASSUME LevelsOK, NEW op, Step(op), Advance(1)
  PROVE  status = "on" /\ ~Calling'
<1>1. rip # Main /\ status = "on" /\ rip.at \in 1 .. StubLength(rip.of) + 34
  BY StepIsTop
<1>2. StubLength(rip.of) \in {1, 2}
  BY DEF StubLength
<1>3. PartsOK
  BY <1>1, TopFacts
<1>4. rip'.at = rip.at + 1
  BY <1>3, AdvanceParts DEF Advance
<1>5. rip.at \in Nat \ {0}
  BY <1>1, <1>2
<1>6. rip'.at # 0
  BY <1>4, <1>5
<1> QED
  BY <1>1, <1>6 DEF Calling

(* So the invariant of the handler has nothing to say of those steps.      *)
LEMMA OthersQuiet ==
  ASSUME IInv,
         \/ Compute \/ \E v \in Vectors, code \in FaultCodes : Interrupt(v, code)
         \/ PushStep \/ CldStep \/ ReturnStep \/ PopStep \/ AddStep \/ IretqStep
  PROVE  HandlerOK'
<1> USE DEF IInv
<1>1. CASE Compute
  <2>1. status = "on" /\ UNCHANGED <<status, report>> /\ ~Calling'
    BY <1>1 DEF Compute, Calling, Main
  <2> QED
    BY <2>1, QuietStepHandler
<1>2. ASSUME NEW v \in Vectors, NEW code \in FaultCodes, Interrupt(v, code) PROVE HandlerOK'
  <2>1. status = "on" /\ UNCHANGED <<status, report>> /\ rip'.at = 1
    BY <1>2 DEF Interrupt
  <2> QED
    BY <2>1, QuietStepHandler DEF Calling
<1>3. CASE PushStep
  <2>1. status = "on" /\ ~Calling'
    BY <1>3, AdvanceQuiet DEF PushStep
  <2> QED
    BY <1>3, <2>1, QuietStepHandler DEF PushStep
<1>4. CASE CldStep
  <2>1. status = "on" /\ ~Calling'
    BY <1>4, AdvanceQuiet DEF CldStep
  <2> QED
    BY <1>4, <2>1, QuietStepHandler DEF CldStep
<1>5. CASE ReturnStep
  <2>1. LevelsOK' /\ UNCHANGED interrupted /\ status = "on"
    BY <1>5, ReturnStepLevels DEF ReturnStep
  <2>2. rip # Main /\ IsSeq(Last(interrupted).cpu.stack) /\ Holds(Last(interrupted), stack, 23)
    BY <1>5, CallingFacts DEF ReturnStep, Calling, Main
  <2>3. PartsOK
    BY <2>2, TopFacts
  <2>4. Last(stack) = StubLength(Last(interrupted).vector) + 18
    <3>1. stack[Len(stack) - 0] = Word(Last(interrupted), 23 - 0)
      BY <2>2, TopHolds
    <3>2. Len(stack) \in Nat
      BY <2>3, LengthOfSeq DEF PartsOK
    <3>3. Len(stack) - 0 = Len(stack) /\ 23 - 0 = 23
      BY <3>2
    <3>4. Word(Last(interrupted), 23) = StubLength(Last(interrupted).vector) + 18
      BY DEF Word
    <3> QED
      BY <3>1, <3>3, <3>4, Zenon DEF Last
  <2>5. rip'.at = StubLength(Last(interrupted).vector) + 18
    BY <1>5, <2>3, <2>4, AdvanceParts DEF ReturnStep
  <2>6. StubLength(Last(interrupted).vector) \in {1, 2}
    BY DEF StubLength
  <2>7. rip'.at # 0
    BY <2>5, <2>6
  <2> QED
    BY <1>5, <2>1, <2>7, QuietStepHandler DEF ReturnStep, Calling
<1>6. CASE PopStep
  <2>1. status = "on" /\ ~Calling'
    BY <1>6, AdvanceQuiet DEF PopStep
  <2> QED
    BY <1>6, <2>1, QuietStepHandler DEF PopStep
<1>7. CASE AddStep
  <2>1. status = "on" /\ ~Calling'
    BY <1>7, AdvanceQuiet DEF AddStep
  <2> QED
    BY <1>7, <2>1, QuietStepHandler DEF AddStep
<1>8. CASE IretqStep
  <2>1. Cpu' = Last(interrupted).cpu /\ Len(interrupted) = 1
    BY <1>8, IretqRestores
  <2>2. rip # Main
    BY <1>8, StepIsTop DEF IretqStep
  <2>3. Last(interrupted).cpu = CpuAt(0)
    BY <2>1, <2>2, TopFacts
  <2>4. rip' = Main
    BY <2>1, <2>3, CpuFields DEF LevelsOK
  <2>5. status = "on" /\ UNCHANGED <<status, report>>
    BY <1>8 DEF IretqStep, Step
  <2> QED
    BY <2>4, <2>5, QuietStepHandler DEF Calling, Main
<1> QED
  BY <1>1, <1>2, <1>3, <1>4, <1>5, <1>6, <1>7, <1>8

---------------------------------------------------------------------------
(* The initial states.                                                     *)
LEMMA InitInv ==
  ASSUME Init
  PROVE  IInv
<1>1. HandlerOK
  BY DEF Init, HandlerOK, Calling, Main
<1> QED
  BY <1>1, InitLevels DEF IInv

(* Each action in turn.                                                    *)
LEMMA StepInv ==
  ASSUME IInv, [Next]_vars
  PROVE  IInv'
<1>1. CASE Compute
  BY <1>1, ComputeLevels, OthersQuiet DEF IInv
<1>2. ASSUME NEW v \in Vectors, NEW code \in FaultCodes, Interrupt(v, code) PROVE IInv'
  BY <1>2, InterruptLevels, OthersQuiet DEF IInv
<1>3. CASE PushStep
  BY <1>3, PushStepLevels, OthersQuiet DEF IInv
<1>4. CASE CldStep
  BY <1>4, CldStepLevels, OthersQuiet DEF IInv
<1>5. CASE CallStep
  BY <1>5, CallStepLevels, CallStepHandler DEF IInv
<1>6. CASE ReturnStep
  BY <1>6, ReturnStepLevels, OthersQuiet DEF IInv
<1>7. CASE PopStep
  BY <1>7, PopStepLevels, OthersQuiet DEF IInv
<1>8. CASE AddStep
  BY <1>8, AddStepLevels, OthersQuiet DEF IInv
<1>9. CASE IretqStep
  BY <1>9, IretqStepLevels, OthersQuiet DEF IInv
<1>10. CASE UNCHANGED vars
  <2>1. PICK n \in Nat : n = Len(interrupted)
    BY LengthOfSeq DEF IInv, LevelsOK
  <2>2. Cpu' = Cpu /\ interrupted' = interrupted /\ Len(interrupted)' = n
    BY <1>10, <2>1 DEF vars, Cpu
  <2>3. \A k \in 0 .. n : CpuAt(k)' = CpuAt(k)
    BY <2>1, <2>2 DEF CpuAt
  <2>4. 0 \in 0 .. n /\ \A k \in 1 .. n : k \in 0 .. n
    BY <2>1
  <2>5. LevelsOK'
    BY <2>1, <2>2, <2>3, <2>4 DEF IInv, LevelsOK
  <2>6. HandlerOK'
    BY <1>10 DEF IInv, HandlerOK, vars, Calling
  <2> QED
    BY <2>5, <2>6 DEF IInv
<1> QED
  BY <1>1, <1>2, <1>3, <1>4, <1>5, <1>6, <1>7, <1>8, <1>9, <1>10 DEF Next

(* Every interrupt is somewhere on its way through its stub, and the stack *)
(* holds what its way so far has put there.                                *)
THEOREM InvariantHolds == Spec => []IInv
<1>1. Init => IInv
  BY InitInv
<1>2. IInv /\ [Next]_vars => IInv'
  BY StepInv
<1> QED
  BY <1>1, <1>2, PTL DEF Spec

(* The gate of a vector leads into the code of a vector, and no interrupt  *)
(* takes more than 24 words of the stack.                                  *)
THEOREM TypeCorrect == Spec => []TypeOK
<1>1. ASSUME LevelsOK, status \in {"on", "halted"} PROVE TypeOK
  <2>1. PICK n \in Nat : n = Len(interrupted) /\ IsSeq(interrupted)
    BY <1>1, LengthOfSeq DEF LevelsOK
  <2>2. CpuAt(n) = Cpu
    BY <2>1 DEF CpuAt
  <2>3. CpuOK(Cpu) /\ Len(stack) <= 1 + 24 * n
    BY <1>1, <2>1, <2>2, CpuFields DEF LevelsOK
  <2>4. DOMAIN regs = Registers /\ rflags \subseteq {"IF", "DF"}
    BY <2>3, CpuParts DEF PartsOK
  <2>5. CASE rip = Main
    <3>1. n = 0
      BY <1>1, <2>1, <2>5, MainIsBottom
    <3>2. interrupted = <<>>
      <4>1. PICK S : interrupted \in Seq(S)
        BY <2>1 DEF IsSeq
      <4> QED
        BY <2>1, <3>1, <4>1, EmptySeq
    <3>3. rip.at \in 0 .. 37
      BY <2>5 DEF Main
    <3> QED
      BY <1>1, <2>1, <2>3, <2>4, <2>5, <3>2, <3>3 DEF TypeOK
  <2>6. CASE rip # Main
    <3>1. LevelOK(Last(interrupted), Cpu) /\ n # 0
      BY <1>1, <2>1, <2>6, TopFacts
    <3> DEFINE e == Last(interrupted)
               k == StubLength(e.vector)
    <3>2. k \in {1, 2}
      BY DEF StubLength
    <3>3. \/ rip.at \in 1 .. k + 16 \/ rip.at = k + 17 \/ rip.at = 0
          \/ rip.at \in k + 18 .. k + 33 \/ rip.at = k + 34
      BY <3>1, CpuFields DEF LevelOK, Entering, Handling, Leaving, Returning
    <3>4. rip.of \in Vectors
      BY <3>1, CpuFields DEF LevelOK
    <3> HIDE DEF k
    <3>5. rip.at \in 0 .. 37
      <4>1. CASE k = 1
        BY <3>3, <4>1
      <4>2. CASE k = 2
        BY <3>3, <4>2
      <4> QED
        BY <3>2, <4>1, <4>2
    <3>6. interrupted # <<>>
      BY <2>1, <3>1
    <3> QED
      BY <1>1, <2>1, <2>3, <2>4, <2>6, <3>4, <3>5, <3>6 DEF TypeOK
  <2> QED
    BY <2>5, <2>6
<1>2. IInv => TypeOK
  BY <1>1 DEF IInv, HandlerOK
<1> QED
  BY <1>2, InvariantHolds, PTL

(* generic_handler finds the registers of the interrupted code under their *)
(* names, and the vector and error code, however deep interrupts nest.     *)
THEOREM HandlerSees == Spec => []HandlerSeesInterrupted
<1>1. ASSUME IInv, Calling
      PROVE  LET last == interrupted[Len(interrupted)]
                 seen == Struct(Front(stack))
             IN  /\ context = seen
                 /\ \A reg \in Registers : seen[reg] = last.cpu.regs[reg]
                 /\ seen.rip = last.cpu.rip /\ seen.rflags = last.cpu.rflags
                 /\ seen.rsp = Len(last.cpu.stack)
                 /\ seen.cs = CodeSelector /\ seen.ss = DataSelector
                 /\ seen.isr_number = last.vector /\ seen.error_code = last.code
  <2> DEFINE e == Last(interrupted)
  <2>1. /\ e = interrupted[Len(interrupted)] /\ Holds(e, stack, 23) /\ IsSeq(e.cpu.stack)
    BY <1>1, CallingFacts DEF IInv
  <2>2. Holds(e, Front(stack), 22)
    <3>1. Holds(e, SubSeq(stack, 1, Len(stack) - 1), 23 - 1)
      BY <2>1, DropHolds
    <3> QED
      BY <3>1 DEF Front
  <2>3. context = Struct(Front(stack))
    BY <1>1 DEF IInv, HandlerOK
  <2> HIDE DEF e
  <2> QED
    BY <2>1, <2>2, <2>3, StructShows
<1>2. IInv => HandlerSeesInterrupted
  BY <1>1 DEF HandlerSeesInterrupted
<1> QED
  BY <1>2, InvariantHolds, PTL

(* The C code is called with the stack aligned, the direction flag clear   *)
(* and interrupts off, whatever was interrupted.                           *)
THEOREM CalledByItsAbi == Spec => []CalledByAbi
<1>1. ASSUME LevelsOK, Calling PROVE Len(stack) % 2 = 1 /\ rflags = {}
  <2> DEFINE b == Bottom(Last(interrupted).cpu.stack)
  <2>1. Holds(Last(interrupted), stack, 23) /\ rflags = {} /\ b \in Nat /\ b % 2 = 0
    BY <1>1, CallingFacts, BottomFacts
  <2>2. Len(stack) = b + 23
    BY <2>1 DEF Holds
  <2> HIDE DEF b
  <2>3. \A m \in Nat : m % 2 = 0 => (m + 23) % 2 = 1
    OBVIOUS
  <2> QED
    BY <2>1, <2>2, <2>3
<1>2. IInv => CalledByAbi
  BY <1>1 DEF IInv, CalledByAbi
<1> QED
  BY <1>2, InvariantHolds, PTL

(* What is printed of a page fault is what the CPU said of it.             *)
THEOREM ReportIsOfTheFault == Spec => []ReportMatches
<1>1. IInv => ReportMatches
  BY DEF IInv, HandlerOK, ReportMatches, PageFaultFlags
<1> QED
  BY <1>1, InvariantHolds, PTL

(* Only iretq ends an interrupt, and then the CPU is as it was interrupted.*)
THEOREM ResumesWhatItInterrupted == Spec => ResumesExactly
<1>1. ASSUME IInv, Next, Len(interrupted') < Len(interrupted)
      PROVE  Cpu' = Last(interrupted).cpu
  <2>1. Len(interrupted) \in Nat
    BY <1>1, LengthOfSeq DEF IInv, LevelsOK
  <2>2. CASE IretqStep
    BY <1>1, <2>2, IretqRestores DEF IInv
  <2>3. ASSUME NEW v \in Vectors, NEW code \in FaultCodes, Interrupt(v, code) PROVE FALSE
    <3>1. Len(interrupted)' = Len(interrupted) + 1
      BY <1>1, <2>3, InterruptLevels DEF IInv
    <3> QED
      BY <1>1, <2>1, <3>1
  <2>4. CASE \/ Compute \/ PushStep \/ CldStep \/ CallStep \/ ReturnStep \/ PopStep \/ AddStep
    <3>1. interrupted' = interrupted
      BY <2>4 DEF Compute, PushStep, CldStep, CallStep, ReturnStep, PopStep, AddStep
    <3> QED
      BY <1>1, <2>1, <3>1
  <2> QED
    BY <1>1, <2>2, <2>3, <2>4 DEF Next
<1>2. IInv /\ [Next]_vars
        => [Len(interrupted') < Len(interrupted) => Cpu' = Last(interrupted).cpu]_vars
  BY <1>1
<1> QED
  BY <1>2, InvariantHolds, PTL DEF Spec, ResumesExactly
=============================================================================
