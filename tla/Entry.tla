------------------------------- MODULE Entry -------------------------------
(***************************************************************************)
(* An interrupt's way in and out, instruction by instruction: the gate of  *)
(* idt.c, the stub and common_interrupt_handler of idt_.asm, the structs   *)
(* in which generic_handler finds the state, and iretq.  The stack is a    *)
(* sequence of words, its top last; a register holds a name for its value. *)
(***************************************************************************)
EXTENDS Integers, Sequences, SequencesExt

CONSTANTS
  Irqs,          (* vectors of lines that interrupt                           *)
  Exceptions,    (* vectors of exceptions and NMI, raised at any instruction  *)
  FaultCodes,    (* error codes of page faults, as sets of bits               *)
  Quarter,       (* values of a quarter of an address: 65536                  *)
  StubAddress,   (* vector -> where its stub is linked                        *)
  MaxDepth       (* bound: interrupts that nest                               *)

Vectors  == Irqs \union Exceptions
NoVector == 256

(* Values of half an address, isr_high of a gate.                          *)
Half == Quarter * Quarter

(* CET and SVM are never enabled, so that 21, 29 and 30 do not occur.      *)
ASSUME EntryAssumption ==
  /\ Irqs \subseteq 32 .. 47 /\ Exceptions \subseteq (0 .. 20) \ {9, 15}
  /\ Quarter \in Nat \ {0} /\ MaxDepth \in Nat
  /\ StubAddress \in [Vectors -> 0 .. Half * Half - 1]
  /\ IsInjective(StubAddress)

VARIABLES
  regs,          (* the general registers                                     *)
  rip,           (* in the main thread, or in the code of a vector            *)
  rflags,        (* the flags that are set, of IF and DF                      *)
  stack,
  context,       (* proc_table[proc_current].context                          *)
  report,        (* what the page fault handler prints                        *)
  status,        (* "on", or "halted" by a panic                              *)
  interrupted    (* what each active interrupt interrupted                    *)

vars == <<regs, rip, rflags, stack, context, report, status, interrupted>>

---------------------------------------------------------------------------
(* gdt.c: selector -> descriptor, the offset in _gdt being the selector.   *)
Segment(access, gran) == [access |-> access, gran |-> gran]

Gdt == (0 :> Segment({}, {})) @@
       (8 :> Segment({"present", "segment", "readwrite", "executable"}, {"long"})) @@
       (16 :> Segment({"present", "segment", "readwrite"}, {"long"})) @@
       (24 :> Segment({"present", "segment", "readwrite", "executable", "user"}, {"long"})) @@
       (32 :> Segment({"present", "segment", "readwrite", "user"}, {})) @@
       (40 :> Segment({"present", "executable", "accessed"}, {}))    (* the TSS *)

KernelCode(selector) ==
  /\ selector \in DOMAIN Gdt
  /\ {"present", "segment", "executable"} \subseteq Gdt[selector].access
  /\ "user" \notin Gdt[selector].access /\ "long" \in Gdt[selector].gran

(* The selectors load_gdt and load_idt leave in cs and ss.                 *)
CodeSelector == 8
DataSelector == 16

(* Mutant of Gate: the middle of the address is not masked off the top.    *)
GateUnshifted(isr) ==
  [isr_low   |-> isr % Quarter,
   isr_mid   |-> isr % Quarter,
   isr_high  |-> (isr \div Half) % Half,
   kernel_cs |-> CodeSelector,
   attributes |-> {"present", "interrupt"}]

(* idt_set_descriptor, whose last argument is always 0x8e.                 *)
Gate(isr) ==
  [isr_low   |-> isr % Quarter,
   isr_mid   |-> (isr \div Quarter) % Quarter,
   isr_high  |-> (isr \div Half) % Half,
   kernel_cs |-> CodeSelector,
   attributes |-> {"present", "interrupt"}]

(* init_idt sets 0 to 48; the other entries are zero.                      *)
Idt(v) == IF v <= 48 THEN Gate(StubAddress[v]) ELSE [attributes |-> {}]

(* The address the CPU puts together, and the stub that is there.          *)
Address(gate) == gate.isr_low + Quarter * gate.isr_mid + Half * gate.isr_high

StubAt(address) ==
  IF \E v \in Vectors : StubAddress[v] = address
    THEN CHOOSE v \in Vectors : StubAddress[v] = address
    ELSE NoVector

---------------------------------------------------------------------------
(* idt_.asm                                                                *)
Pushed == <<"rax", "rbx", "rcx", "rdx", "rbp", "rdi", "rsi", "r8", "r9", "r10",
            "r11", "r12", "r13", "r14", "r15">>

Registers == Range(Pushed)

(* Mutant of Popped: rbx and rbp change places, as in _switch_context.     *)
PoppedRbxFirst == <<"r15", "r14", "r13", "r12", "r11", "r10", "r9", "r8", "rsi",
                    "rdi", "rbx", "rdx", "rcx", "rbp", "rax">>

(* The order of the pops.                                                  *)
Popped == <<"r15", "r14", "r13", "r12", "r11", "r10", "r9", "r8", "rsi", "rdi",
            "rbp", "rdx", "rcx", "rbx", "rax">>

Push(word)   == [op |-> "push", of |-> word]
PushReg(reg) == [op |-> "push reg", of |-> reg]
Pop(reg)     == [op |-> "pop", of |-> reg]
Plain(op)    == [op |-> op, of |-> ""]

(* Stubs that leave the error code to the CPU.                             *)
ErrorCodeHandlers == {8, 10, 11, 12, 13, 14, 17}

(* interrupt_handler and error_code_handler                                *)
Stub(v) ==
  IF v \in ErrorCodeHandlers THEN <<Push(v)>> ELSE <<Push(0), Push(v)>>

(* Mutant of Common: without the cld.                                      *)
CommonWithoutCld ==
  [n \in 1 .. 15 |-> PushReg(Pushed[n])] \o <<Plain("call")>> \o
  [n \in 1 .. 15 |-> Pop(Popped[n])] \o <<Plain("add"), Plain("iretq")>>

(* common_interrupt_handler                                                *)
Common ==
  [n \in 1 .. 15 |-> PushReg(Pushed[n])] \o <<Plain("cld"), Plain("call")>> \o
  [n \in 1 .. 15 |-> Pop(Popped[n])] \o <<Plain("add"), Plain("iretq")>>

Code(v) == Stub(v) \o Common

---------------------------------------------------------------------------
(* Mutant of CpuState: rsi and rdi are declared in the order of the calling*)
(* convention.                                                             *)
CpuStateByConvention ==
  <<"r15", "r14", "r13", "r12", "r11", "r10", "r9", "r8", "rdi", "rsi",
    "rbp", "rdx", "rcx", "rbx", "rax">>

(* idt.h: what generic_handler takes for the words above its return        *)
(* address.                                                                *)
CpuState   == <<"r15", "r14", "r13", "r12", "r11", "r10", "r9", "r8", "rsi", "rdi",
                "rbp", "rdx", "rcx", "rbx", "rax">>
StackState == <<"isr_number", "error_code", "rip", "cs", "rflags", "rsp", "ss">>

Parameters == CpuState \o StackState

(* The struct at the top of a stack.                                       *)
Struct(words) ==
  [field \in Range(Parameters) |->
     words[Len(words) + 1 - (CHOOSE n \in DOMAIN Parameters : Parameters[n] = field)]]

(* Mutant of PageFaultFlags: user and write are mixed up.                  *)
PageFaultFlagsMixed(code) ==
  [present |-> TRUE, write |-> 2 \in code, user |-> 1 \in code,
   reserved |-> FALSE, instruction_fetch |-> 4 \in code,
   protection_key |-> 5 \in code, shadow_stack |-> 6 \in code]

(* paging_get_page_fault_flags                                             *)
PageFaultFlags(code) ==
  [present |-> TRUE, write |-> 1 \in code, user |-> 2 \in code,
   reserved |-> FALSE, instruction_fetch |-> 4 \in code,
   protection_key |-> 5 \in code, shadow_stack |-> 6 \in code]

---------------------------------------------------------------------------
Main     == [of |-> NoVector, at |-> 0]
Calling  == rip.of # NoVector /\ rip.at = 0    (* in generic_handler           *)

(* Values of the main thread's registers, before and after a change.       *)
Value(reg, n) == <<reg, n>>
Values(n)     == [reg \in Registers |-> Value(reg, n)]
Junk          == 2
NoStruct  == [field \in {} |-> 0]
NoReport  == [bit \in {} |-> FALSE]

Init ==
  /\ regs = Values(0) /\ rip = Main
  /\ rflags \in {{"IF"}, {"IF", "DF"}}
  /\ stack \in {<<>>, <<"local">>}
  /\ context = NoStruct /\ report = NoReport
  /\ status = "on" /\ interrupted = <<>>

(* The main thread computes.                                               *)
Compute ==
  /\ status = "on" /\ rip = Main
  /\ regs' \in {Values(0), Values(1)}
  /\ rflags' \in {{"IF"}, {"IF", "DF"}}
  /\ stack' \in {<<>>, <<"local">>}
  /\ UNCHANGED <<rip, context, report, status, interrupted>>

(* The state of the CPU, without the code it runs.                         *)
Cpu == [regs |-> regs, rip |-> rip, rflags |-> rflags, stack |-> stack]

HasErrorCode == {8, 10, 11, 12, 13, 14, 17, 21, 29, 30}

(* The CPU aligns the stack, pushes and enters the gate of vector v.       *)
Interrupt(v, code) ==
  /\ status = "on" /\ Len(interrupted) < MaxDepth
  /\ v \in Irqs => "IF" \in rflags
  /\ LET gate    == Idt(v)
         aligned == IF Len(stack) % 2 = 0 THEN stack ELSE Append(stack, "pad")
         saved   == <<DataSelector, Len(stack), rflags, CodeSelector, rip>>
     IN  /\ "present" \in gate.attributes /\ KernelCode(gate.kernel_cs)
         /\ stack' = aligned \o saved \o
                     (IF v \in HasErrorCode THEN <<code>> ELSE <<>>)
         /\ rflags' = IF "interrupt" \in gate.attributes THEN rflags \ {"IF"} ELSE rflags
         /\ rip' = [of |-> StubAt(Address(gate)), at |-> 1]
  /\ interrupted' = Append(interrupted, [cpu |-> Cpu, vector |-> v,
                             code |-> IF v \in HasErrorCode THEN code ELSE 0])
  /\ UNCHANGED <<regs, context, report, status>>

(* The instruction at rip, in the code of a vector.                        *)
Step(op) ==
  /\ status = "on" /\ rip.of \in Vectors /\ rip.at > 0
  /\ Code(rip.of)[rip.at].op = op

Operand == Code(rip.of)[rip.at].of

Advance(by) == rip' = [rip EXCEPT !.at = @ + by]

Drop(n) == stack' = SubSeq(stack, 1, Len(stack) - n)

PushStep ==
  /\ Step("push") \/ Step("push reg")
  /\ stack' = Append(stack, IF Step("push") THEN Operand ELSE regs[Operand])
  /\ Advance(1)
  /\ UNCHANGED <<regs, rflags, context, report, status, interrupted>>

CldStep ==
  /\ Step("cld")
  /\ rflags' = rflags \ {"DF"}
  /\ Advance(1)
  /\ UNCHANGED <<regs, stack, context, report, status, interrupted>>

(* generic_handler is called and saves the state; it stops the kernel      *)
(* unless the vector is that of a line.                                    *)
CallStep ==
  /\ Step("call")
  /\ context' = Struct(stack)
  /\ LET isr_number == Struct(stack).isr_number
     IN  IF isr_number \in 32 .. 47
           THEN UNCHANGED <<report, status>>
           ELSE /\ status' = "halted"
                /\ report' = IF isr_number = 14
                               THEN PageFaultFlags(Struct(stack).error_code) ELSE report
  /\ stack' = Append(stack, rip.at + 1)
  /\ rip' = [rip EXCEPT !.at = 0]
  /\ UNCHANGED <<regs, rflags, interrupted>>

(* It returns: the registers a caller saves hold anything.                 *)
CallerSaved == {"rax", "rcx", "rdx", "rsi", "rdi", "r8", "r9", "r10", "r11"}

ReturnStep ==
  /\ status = "on" /\ Calling
  /\ regs' = [reg \in Registers |-> IF reg \in CallerSaved THEN Value(reg, Junk) ELSE regs[reg]]
  /\ rip' = [rip EXCEPT !.at = Last(stack)]
  /\ Drop(1)
  /\ UNCHANGED <<rflags, context, report, status, interrupted>>

PopStep ==
  /\ Step("pop")
  /\ regs' = [regs EXCEPT ![Operand] = Last(stack)]
  /\ Drop(1) /\ Advance(1)
  /\ UNCHANGED <<rflags, context, report, status, interrupted>>

(* add rsp, 16                                                             *)
AddStep ==
  /\ Step("add")
  /\ Drop(2) /\ Advance(1)
  /\ UNCHANGED <<regs, rflags, context, report, status, interrupted>>

IretqStep ==
  /\ Step("iretq")
  /\ LET top == Len(stack)
     IN  /\ rip' = stack[top] /\ rflags' = stack[top - 2]
         /\ stack' = SubSeq(stack, 1, stack[top - 3])
  /\ interrupted' = Front(interrupted)
  /\ UNCHANGED <<regs, context, report, status>>

Next ==
  \/ Compute
  \/ \E v \in Vectors, code \in FaultCodes : Interrupt(v, code)
  \/ PushStep \/ CldStep \/ CallStep \/ ReturnStep \/ PopStep \/ AddStep \/ IretqStep

Spec == Init /\ [][Next]_vars
---------------------------------------------------------------------------
(* The gate that was entered leads to a stub, and the stack holds at most a*)
(* frame of 24 words for every interrupt.                                  *)
TypeOK ==
  /\ DOMAIN regs = Registers
  /\ rip.of \in Vectors \/ rip = Main
  /\ rip.at \in 0 .. 37
  /\ rflags \subseteq {"IF", "DF"}
  /\ Len(stack) <= 1 + 24 * Len(interrupted)
  /\ status \in {"on", "halted"}
  /\ (rip = Main) <=> (interrupted = <<>>)

(* generic_handler finds every register of the code that was interrupted,  *)
(* whichever instruction of another stub that was, under the name the dump *)
(* prints it with, and the vector and its error code; so does the context  *)
(* it saves.                                                               *)
HandlerSeesInterrupted ==
  Calling =>
    LET last == interrupted[Len(interrupted)]
        seen == Struct(Front(stack))
    IN  /\ context = seen
        /\ \A reg \in Registers : seen[reg] = last.cpu.regs[reg]
        /\ seen.rip = last.cpu.rip /\ seen.rflags = last.cpu.rflags
        /\ seen.rsp = Len(last.cpu.stack)
        /\ seen.cs = CodeSelector /\ seen.ss = DataSelector
        /\ seen.isr_number = last.vector /\ seen.error_code = last.code

(* The C code is called as its ABI says: the stack aligned to 16 bytes     *)
(* before the return address, the direction flag clear; and interrupts are *)
(* off.                                                                    *)
CalledByAbi ==
  Calling => Len(stack) % 2 = 1 /\ rflags = {}

(* Whoever is interrupted by a line goes on as if nothing had happened:    *)
(* idt_.asm's "return to the code that got interrupted".                   *)
ResumesExactly ==
  [][Len(interrupted') < Len(interrupted) => Cpu' = Last(interrupted).cpu]_vars

(* What is printed of a page fault, where it is printed from the error     *)
(* code, is what the CPU said of that fault.                               *)
ReportMatches ==
  report # NoReport =>
    LET code == Last(interrupted).code
    IN  /\ report.write = (1 \in code) /\ report.user = (2 \in code)
        /\ report.instruction_fetch = (4 \in code)
        /\ report.protection_key = (5 \in code) /\ report.shadow_stack = (6 \in code)
============================================================================
