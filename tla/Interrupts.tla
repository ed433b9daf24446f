----------------------------- MODULE Interrupts -----------------------------
(***************************************************************************)
(* Interrupts from the entry of the kernel to hcf: the initialization done *)
(* by _kernel_start and initialize_interrupts, the entry stubs of idt_.asm,*)
(* generic_handler, the keyboard and timer that raise interrupts, and the  *)
(* panic in which every path of the kernel ends today.  Code is cut where  *)
(* an interrupt, a device or the PIC can tell the difference.              *)
(***************************************************************************)
EXTENDS Pic8259, Sequences

CONSTANTS
  Contexts,     (* what the context of the kernel's slot may be: "page" if   *)
                (* create_proc0 has been called, "null" if it has not        *)
  BootMasks,    (* masks the bootloader leaves                               *)
  KeyStages,    (* stages of the main thread during which keys are typed     *)
  DriverLines,  (* lines a driver may unmask besides timer and keyboard      *)
  DeviceLines,  (* lines of those devices                                    *)
  Traps,        (* exceptions kernel code may raise                          *)
  MaxFrames,    (* handler frames that fit the kernel's stack                *)
  MaxTicks,     (* bound: timer ticks                                        *)
  MaxKeys       (* bound: bytes typed                                        *)

Stage == {"entry", "initialize", "vectors", "masks", "flush", "timer", "keyboard",
          "enable", "run", "panic", "done"}

NMI        == 2
PAGE_FAULT == 14
NoIrq      == 16    (* the line of a frame that has none in service          *)

ASSUME InterruptsAssumption ==
  /\ Contexts \subseteq {"null", "page"}
  /\ BootMasks \subseteq SUBSET IRQ
  /\ KeyStages \subseteq Stage
  /\ DriverLines \subseteq IRQ /\ DeviceLines \subseteq IRQ
  /\ Traps \subseteq 0 .. 31
  /\ MaxFrames \in Nat \ {0}
  /\ MaxTicks \in Nat /\ MaxKeys \in Nat

VARIABLES
  main,       (* stage of the main thread                                    *)
  saved,      (* a1 and a2 of pic_remap                                      *)
  i,          (* counter of the flush loop                                   *)
  IF_,        (* the interrupt flag                                          *)
  frames,     (* handler frames on the stack, the running one last           *)
  context,    (* proc_table[proc_current].context                            *)
  status,     (* "on"; "halted" in hcf; "reset" by a triple fault            *)
  obf,        (* the keyboard controller holds a byte (KBS_DIB)              *)
  backlog,    (* bytes waiting in the keyboard for the controller            *)
  ticks, typed

bootVars == <<main, saved, i>>
kbVars   == <<obf, backlog, typed>>
vars     == <<irr, isr, imr, offset, main, saved, i, IF_, frames, context, status,
              obf, backlog, ticks, typed>>

Init ==
  /\ irr = {} /\ isr = {} /\ imr \in BootMasks
  /\ offset = [master |-> 8, slave |-> 112]
  /\ main = "entry" /\ saved = {} /\ i = 0
  /\ IF_ = FALSE
  /\ frames = <<>>
  /\ context \in Contexts
  /\ status = "on"
  /\ obf = FALSE /\ backlog = 0 /\ ticks = 0 /\ typed = 0

---------------------------------------------------------------------------
(* The main thread runs when no handler does.                              *)
MainAt(stage) == status = "on" /\ frames = <<>> /\ main = stage

Quiet == UNCHANGED <<frames, context, status, obf, backlog, typed, ticks>>

(* _kernel_start up to initialize_interrupts, init_gdt and init_idt, which *)
(* ends with the cli of load_idt.                                          *)
LoadIdt ==
  /\ MainAt("entry")
  /\ main' = "initialize" /\ IF_' = FALSE
  /\ UNCHANGED <<picVars, saved, i>> /\ Quiet

RemapInitialize ==
  /\ MainAt("initialize")
  /\ saved' = imr
  /\ StartInitialization
  /\ main' = "vectors"
  /\ UNCHANGED <<i, IF_>> /\ Quiet

(* Mutant of RemapVectors: the vectors of the BIOS are kept.               *)
RemapVectorsSkipped ==
  /\ MainAt("vectors")
  /\ SetVectors(8, 112)
  /\ main' = "masks"
  /\ UNCHANGED <<saved, i, IF_>> /\ Quiet

RemapVectors ==
  /\ MainAt("vectors")
  /\ SetVectors(32, 40)
  /\ main' = "masks"
  /\ UNCHANGED <<saved, i, IF_>> /\ Quiet

RemapMasks ==
  /\ MainAt("masks")
  /\ RestoreMasks(saved)
  /\ main' = "flush"
  /\ UNCHANGED <<saved, i, IF_>> /\ Quiet

(* Mutant of Flush: the loop runs once too often.                          *)
FlushOnceMore ==
  /\ MainAt("flush")
  /\ IF i <= 16
       THEN SendEoi(i) /\ i' = i + 1 /\ UNCHANGED main
       ELSE main' = "timer" /\ UNCHANGED <<picVars, i>>
  /\ UNCHANGED <<saved, IF_>> /\ Quiet

(* The loop "flush all pending".                                           *)
Flush ==
  /\ MainAt("flush")
  /\ IF i < 16
       THEN SendEoi(i) /\ i' = i + 1 /\ UNCHANGED main
       ELSE main' = "timer" /\ UNCHANGED <<picVars, i>>
  /\ UNCHANGED <<saved, IF_>> /\ Quiet

UnmaskTimer ==
  /\ MainAt("timer")
  /\ ClearMask(TIMER)
  /\ main' = "keyboard"
  /\ UNCHANGED <<saved, i, IF_>> /\ Quiet

(* Mutant of UnmaskKeyboard: the timer's line is cleared a second time.    *)
UnmaskKeyboardWrongLine ==
  /\ MainAt("keyboard")
  /\ ClearMask(TIMER)
  /\ main' = "enable"
  /\ UNCHANGED <<saved, i, IF_>> /\ Quiet

UnmaskKeyboard ==
  /\ MainAt("keyboard")
  /\ ClearMask(KEYBOARD)
  /\ main' = "enable"
  /\ UNCHANGED <<saved, i, IF_>> /\ Quiet

EnableInterrupts ==
  /\ MainAt("enable")
  /\ main' = "run" /\ IF_' = TRUE
  /\ UNCHANGED <<picVars, saved, i>> /\ Quiet

(* Whatever _kernel_start still does, it ends in enter_panic, which prints *)
(* with interrupts enabled and then calls hcf.                             *)
Panic ==
  /\ MainAt("run")
  /\ main' = "panic"
  /\ UNCHANGED <<picVars, saved, i, IF_>> /\ Quiet

(* Mutant of Hcf: hlt without cli.                                         *)
HcfWithoutCli ==
  /\ status' = "halted"
  /\ UNCHANGED IF_

(* hcf: cli, then hlt for ever.                                            *)
Hcf ==
  /\ status' = "halted"
  /\ IF_' = FALSE

MainHalts ==
  /\ MainAt("panic")
  /\ Hcf
  /\ main' = "done"
  /\ UNCHANGED <<picVars, saved, i, frames, context, kbVars, ticks>>

Boot == \/ LoadIdt \/ RemapInitialize \/ RemapVectors \/ RemapMasks \/ Flush
        \/ UnmaskTimer \/ UnmaskKeyboard \/ EnableInterrupts

---------------------------------------------------------------------------
(* Entering a handler through a gate of the IDT.  Every gate is 0x8e, an   *)
(* interrupt gate, so the flag is cleared; with no room left on the stack  *)
(* the fault of the push cannot be delivered either and the CPU resets.    *)

(* Mutant of EnterHandler: the gates are trap gates, 0x8f.                 *)
EnterHandlerTrapGate(vec, irq) ==
  IF Len(frames) < MaxFrames
    THEN /\ frames' = Append(frames, [vec |-> vec, irq |-> irq, stage |-> "save", if |-> IF_])
         /\ status' = "on"
         /\ UNCHANGED IF_
    ELSE status' = "reset" /\ UNCHANGED <<frames, IF_>>

EnterHandler(vec, irq) ==
  IF Len(frames) < MaxFrames
    THEN /\ frames' = Append(frames, [vec |-> vec, irq |-> irq, stage |-> "save", if |-> IF_])
         /\ status' = "on"
         /\ IF_' = FALSE
    ELSE status' = "reset" /\ UNCHANGED <<frames, IF_>>

Interrupted == UNCHANGED <<bootVars, context, kbVars, ticks>>

DeliverIrq(q) ==
  /\ status = "on" /\ IF_
  /\ Acknowledge(q)
  /\ EnterHandler(VectorOf(q), q)
  /\ Interrupted

(* The timer's line is high for half its period: a request that waits for  *)
(* longer than that is withdrawn as the CPU takes it.                      *)
DeliverSpurious ==
  /\ status = "on" /\ IF_
  /\ Withdraw(TIMER)
  /\ EnterHandler(offset.master + SPURIOUS, NoIrq)
  /\ Interrupted

(* An exception in any code that runs after the IDT is loaded.  The NMI is *)
(* one too, and wakes a halted CPU; it is blocked while it is handled.     *)
Trap(vec) ==
  /\ main # "entry"
  /\ status = "on" \/ (status = "halted" /\ vec = NMI)
  /\ \A k \in DOMAIN frames : frames[k].vec # vec
  /\ EnterHandler(vec, NoIrq)
  /\ Interrupted /\ UNCHANGED picVars

---------------------------------------------------------------------------
(* generic_handler, for the frame on top of the stack.                     *)
Top == frames[Len(frames)]
HandlerAt(stage) == status = "on" /\ frames # <<>> /\ Top.stage = stage
IsIrq(vec) == 32 <= vec /\ vec < 48

Goto(stage) == frames' = [frames EXCEPT ![Len(frames)].stage = stage]

(* The two assignments through proc_table[proc_current].context.           *)
SaveState ==
  /\ HandlerAt("save")
  /\ IF context = "page"
       THEN Goto("dispatch") /\ UNCHANGED <<status, IF_>>
       ELSE EnterHandler(PAGE_FAULT, NoIrq)
  /\ Interrupted /\ UNCHANGED picVars

(* kb_get_scancode takes the byte, if there is one, and the line falls.    *)
KeyboardIrq ==
  /\ HandlerAt("dispatch") /\ Top.vec = 33
  /\ obf' = FALSE
  /\ Goto("print")
  /\ UNCHANGED <<picVars, bootVars, IF_, context, status, backlog, typed, ticks>>

TimerIrq ==
  /\ HandlerAt("dispatch") /\ Top.vec = 32
  /\ Goto("eoi")
  /\ UNCHANGED <<picVars, IF_, status>> /\ Interrupted

(* Mutant of UnknownIrq: the default case ends like an exception.          *)
UnknownIrqDumped ==
  /\ HandlerAt("dispatch") /\ IsIrq(Top.vec) /\ Top.vec \notin {32, 33}
  /\ Goto("dump")
  /\ UNCHANGED <<picVars, IF_, status>> /\ Interrupted

UnknownIrq ==
  /\ HandlerAt("dispatch") /\ IsIrq(Top.vec) /\ Top.vec \notin {32, 33}
  /\ Goto("print")
  /\ UNCHANGED <<picVars, IF_, status>> /\ Interrupted

(* The character, or the dump of an unknown interrupt.                     *)
PrintIrq ==
  /\ HandlerAt("print")
  /\ Goto("eoi")
  /\ UNCHANGED <<picVars, IF_, status>> /\ Interrupted

(* Mutant of AckIrq: the handler returns without an EOI.                   *)
AckIrqForgotten ==
  /\ HandlerAt("eoi")
  /\ Goto("iret")
  /\ UNCHANGED <<picVars, IF_, status>> /\ Interrupted

(* pic_send_eoi(stack.error_code): the stub of an IRQ pushes 0 for it.     *)
AckIrq ==
  /\ HandlerAt("eoi")
  /\ SendEoi(0)
  /\ Goto("iret")
  /\ UNCHANGED <<IF_, status>> /\ Interrupted

(* Mutant of Iretq: the flags on the stack are not restored.               *)
IretqKeepsFlag ==
  /\ HandlerAt("iret")
  /\ frames' = SubSeq(frames, 1, Len(frames) - 1)
  /\ UNCHANGED <<picVars, IF_, status>> /\ Interrupted

Iretq ==
  /\ HandlerAt("iret")
  /\ IF_' = Top.if
  /\ frames' = SubSeq(frames, 1, Len(frames) - 1)
  /\ UNCHANGED <<picVars, status>> /\ Interrupted

(* Every vector that is not an IRQ's is dumped and ends in panic.          *)
Exception ==
  /\ HandlerAt("dispatch") /\ ~IsIrq(Top.vec)
  /\ Goto("dump")
  /\ UNCHANGED <<picVars, IF_, status>> /\ Interrupted

HandlerPanics ==
  /\ HandlerAt("dump")
  /\ Hcf
  /\ UNCHANGED <<picVars, frames>> /\ Interrupted

Handler == \/ SaveState \/ KeyboardIrq \/ TimerIrq \/ UnknownIrq \/ PrintIrq
           \/ AckIrq \/ Iretq \/ Exception \/ HandlerPanics

---------------------------------------------------------------------------
(* The devices.                                                            *)
Devices == UNCHANGED <<bootVars, IF_, frames, context, status>>

Tick ==
  /\ ticks < MaxTicks /\ ticks' = ticks + 1
  /\ Edge(TIMER)
  /\ Devices /\ UNCHANGED kbVars

Type ==
  /\ typed < MaxKeys /\ typed' = typed + 1
  /\ main \in KeyStages
  /\ backlog' = backlog + 1
  /\ Devices /\ UNCHANGED <<picVars, obf, ticks>>

(* The keyboard controller takes the next byte and raises its line, which  *)
(* stays high until the byte is read: one edge for each byte.              *)
LoadByte ==
  /\ ~obf /\ backlog > 0
  /\ obf' = TRUE /\ backlog' = backlog - 1
  /\ Edge(KEYBOARD)
  /\ Devices /\ UNCHANGED <<typed, ticks>>

Device(q) ==
  /\ q \notin irr \union isr
  /\ Edge(q)
  /\ Devices /\ UNCHANGED <<kbVars, ticks>>

(* A driver that calls irq_clear_mask while the kernel runs.               *)
DriverUnmasks(q) ==
  /\ MainAt("run")
  /\ ClearMask(q)
  /\ UNCHANGED <<bootVars, IF_>> /\ Quiet

---------------------------------------------------------------------------
Next ==
  \/ Boot \/ Panic \/ MainHalts
  \/ Handler
  \/ \E q \in IRQ : DeliverIrq(q)
  \/ DeliverSpurious
  \/ \E vec \in Traps : Trap(vec)
  \/ Tick \/ Type \/ LoadByte
  \/ \E q \in DeviceLines : Device(q)
  \/ \E q \in DriverLines : DriverUnmasks(q)

Spec == Init /\ [][Next]_vars

(* Code runs until it halts, the CPU takes interrupts it may take and the  *)
(* keyboard controller passes bytes on.  Nothing is assumed of the main    *)
(* thread after it enabled interrupts: it may run for as long as it likes. *)
Fairness ==
  /\ WF_vars(Boot) /\ WF_vars(Handler)
  /\ WF_vars(\E q \in IRQ : DeliverIrq(q))
  /\ WF_vars(LoadByte)

FairSpec == Spec /\ Fairness
---------------------------------------------------------------------------
Frame ==
  [vec : 0 .. 255, irq : IRQ \union {NoIrq}, if : BOOLEAN,
   stage : {"save", "dispatch", "print", "eoi", "iret", "dump"}]

TypeOK ==
  /\ PicTypeOK
  /\ main \in Stage /\ saved \subseteq IRQ /\ i \in 0 .. 16
  /\ IF_ \in BOOLEAN
  /\ frames \in Seq(Frame) /\ Len(frames) <= MaxFrames
  /\ context \in {"null", "page"}
  /\ status \in {"on", "halted", "reset"}
  /\ obf \in BOOLEAN /\ backlog \in Nat /\ typed \in Nat /\ ticks \in Nat

(* Handlers of IRQs never nest: one is entered only from the main thread,  *)
(* so the static state of kb_get_scancode and the terminal see at most one *)
(* of them at a time, above or below whatever exceptions there are.        *)
IrqsDoNotNest ==
  \A k \in DOMAIN frames : IsIrq(frames[k].vec) => k = 1

(* A line is in service at the PIC exactly while its handler runs and has  *)
(* not acknowledged it: the EOI of a handler ends its own interrupt, also  *)
(* when the interrupt was spurious and none was in service.                *)
Unacknowledged ==
  {frames[k].irq : k \in {j \in DOMAIN frames : frames[j].stage # "iret"}} \ {NoIrq}

ServiceMatches == isr = Unacknowledged

(* No interrupt of a device arrives on an exception's vector: those carry  *)
(* no line, and an IRQ vector is only entered for a line or a spurious 7.  *)
VectorsAreDistinct ==
  \A k \in DOMAIN frames :
    /\ frames[k].irq # NoIrq => frames[k].vec = 32 + frames[k].irq
    /\ frames[k].irq = NoIrq => frames[k].vec < 32 \/ frames[k].vec = 32 + SPURIOUS

(* Interrupts stay enabled in the main thread from sti to hcf, whatever    *)
(* handlers ran in between.                                                *)
FlagRestored ==
  status = "on" /\ frames = <<>> /\ main \in {"run", "panic"} => IF_

(* After hcf no interrupt is acknowledged and the main thread stays where  *)
(* it is; only an NMI runs, and its handler halts again.                   *)
HaltIsFinal ==
  [][status = "halted" => ~IF_' /\ isr' = isr /\ main' = main]_vars

(* Every byte the keyboard controller holds is read, unless the CPU stops. *)
KeysAreRead == obf ~> (~obf \/ status # "on")

(* idt_.asm, after the call of generic_handler: "return to the code that   *)
(* got interrupted".  The handler of an IRQ returns, unless an exception   *)
(* of the code itself or an NMI comes in between and ends the run.         *)
IrqsReturn ==
  (\E k \in DOMAIN frames : IsIrq(frames[k].vec)) ~>
    (frames = <<>> \/ \E k \in DOMAIN frames : frames[k].vec \in Traps)
===========================================================================
