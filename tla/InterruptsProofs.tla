-------------------------- MODULE InterruptsProofs --------------------------
(***************************************************************************)
(* The safety properties of Interrupts, for every bootloader, every device *)
(* and any number of handler frames.                                       *)
(***************************************************************************)
EXTENDS Interrupts, TLAPS

Enabled == main \in {"run", "panic"}

(* The vectors are the kernel's own from RemapVectors on.                  *)
OffsetInv ==
  main \notin {"entry", "initialize", "vectors"} => offset = [master |-> 32, slave |-> 40]

(* The flag is set exactly in the main thread between sti and hcf; a CPU   *)
(* that stopped did so in a handler or at the end of the main thread.      *)
FlagInv ==
  /\ IF_ <=> (frames = <<>> /\ Enabled)
  /\ status # "on" => frames # <<>> \/ main = "done"

(* The frame at depth k: only the outermost can be an IRQ's, only an IRQ's *)
(* has a line and gets as far as its EOI, and the flag it will restore is  *)
(* the main thread's.                                                      *)
FrameInv(k) ==
  /\ IsIrq(frames[k].vec) => k = 1 /\ frames[k].stage # "dump"
  /\ ~IsIrq(frames[k].vec) =>
       frames[k].irq = NoIrq /\ frames[k].stage \in {"save", "dispatch", "dump"}
  /\ frames[k].irq # NoIrq => frames[k].vec = 32 + frames[k].irq
  /\ frames[k].irq = NoIrq => frames[k].vec < 32 \/ frames[k].vec = 32 + SPURIOUS
  /\ frames[k].if <=> (k = 1 /\ Enabled)

IInv ==
  /\ TypeOK
  /\ OffsetInv
  /\ FlagInv
  /\ \A k \in DOMAIN frames : FrameInv(k)

FrameStage == {"save", "dispatch", "print", "eoi", "iret", "dump"}

---------------------------------------------------------------------------
(* Operations on the stack of frames.                                      *)

(* Goto changes the stage of the frame on top and nothing else.            *)
LEMMA GotoFacts ==
  ASSUME frames \in Seq(Frame), frames # <<>>, NEW stage \in FrameStage, Goto(stage)
  PROVE  /\ frames' \in Seq(Frame) /\ frames' # <<>>
         /\ Len(frames') = Len(frames)
         /\ \A k \in 1 .. Len(frames) :
              /\ frames'[k].vec = frames[k].vec
              /\ frames'[k].irq = frames[k].irq
              /\ frames'[k].if = frames[k].if
              /\ frames'[k].stage = IF k = Len(frames) THEN stage ELSE frames[k].stage
<1>1. /\ frames' = [frames EXCEPT ![Len(frames)].stage = stage]
      /\ Len(frames) \in Nat \ {0}
      /\ \A k \in 1 .. Len(frames) : frames[k] \in Frame
  BY DEF Goto
<1>2. ASSUME NEW f \in Frame
      PROVE  /\ [f EXCEPT !.stage = stage] \in Frame
             /\ [f EXCEPT !.stage = stage].vec = f.vec
             /\ [f EXCEPT !.stage = stage].irq = f.irq
             /\ [f EXCEPT !.stage = stage].if = f.if
             /\ [f EXCEPT !.stage = stage].stage = stage
  BY DEF Frame, FrameStage
<1>3. \A k \in 1 .. Len(frames) :
        frames'[k] = IF k = Len(frames) THEN [frames[k] EXCEPT !.stage = stage]
                                        ELSE frames[k]
  BY <1>1
<1>4. frames' \in Seq(Frame) /\ Len(frames') = Len(frames)
  BY <1>1, <1>2, <1>3
<1> QED
  BY <1>1, <1>2, <1>3, <1>4

(* EnterHandler pushes a frame that remembers the flag and clears it, or   *)
(* resets the CPU.                                                         *)
LEMMA EnterFacts ==
  ASSUME frames \in Seq(Frame), Len(frames) <= MaxFrames, IF_ \in BOOLEAN,
         NEW vec \in 0 .. 255, NEW irq \in IRQ \union {NoIrq}, EnterHandler(vec, irq)
  PROVE  \/ /\ frames' \in Seq(Frame) /\ Len(frames') <= MaxFrames
            /\ Len(frames') = Len(frames) + 1
            /\ \A k \in 1 .. Len(frames) : frames'[k] = frames[k]
            /\ frames'[Len(frames) + 1] =
                 [vec |-> vec, irq |-> irq, stage |-> "save", if |-> IF_]
            /\ status' = "on" /\ IF_' = FALSE
         \/ /\ status' = "reset" /\ frames # <<>>
            /\ UNCHANGED <<frames, IF_>>
<1>1. [vec |-> vec, irq |-> irq, stage |-> "save", if |-> IF_] \in Frame
  BY DEF Frame
<1> QED
  BY <1>1, InterruptsAssumption DEF EnterHandler

---------------------------------------------------------------------------
(* The initial states.                                                     *)
LEMMA InitIInv == Init => IInv
<1> SUFFICES ASSUME Init PROVE IInv
  OBVIOUS
<1>1. TypeOK
  <2>1. PicTypeOK
    BY InterruptsAssumption DEF Init, PicTypeOK, IRQ
  <2>2. frames \in Seq(Frame) /\ Len(frames) <= MaxFrames
    BY InterruptsAssumption DEF Init
  <2>3. main \in Stage /\ saved \subseteq IRQ /\ status \in {"on", "halted", "reset"}
    BY DEF Init, Stage
  <2>4. IF_ \in BOOLEAN /\ obf \in BOOLEAN
    BY Zenon DEF Init
  <2>5. i \in 0 .. 16 /\ backlog \in Nat /\ typed \in Nat /\ ticks \in Nat
    <3>1. i = 0 /\ backlog = 0 /\ typed = 0 /\ ticks = 0
      BY DEF Init
    <3> QED
      BY <3>1
  <2>6. context \in {"null", "page"}
    BY InterruptsAssumption DEF Init
  <2> QED
    BY <2>1, <2>2, <2>3, <2>4, <2>5, <2>6 DEF TypeOK
<1> QED
  BY <1>1 DEF Init, IInv, OffsetInv, FlagInv, Enabled

(* Steps of the main thread: the stack stays empty.                        *)
LEMMA MainIInv ==
  ASSUME IInv, Boot \/ Panic \/ MainHalts \/ \E q \in DriverLines : DriverUnmasks(q)
  PROVE  IInv'
<1> USE DEF MainAt, Quiet, kbVars, picVars, Boot, LoadIdt, RemapInitialize, RemapVectors,
            RemapMasks, Flush, UnmaskTimer, UnmaskKeyboard, EnableInterrupts, Panic,
            MainHalts, Hcf, DriverUnmasks, bootVars
<1>1. frames = <<>> /\ frames' = <<>>
  OBVIOUS
<1>2. PicTypeOK'
  <2>1. PicTypeOK /\ saved \subseteq IRQ
    BY DEF IInv, TypeOK
  <2> QED
    BY <2>1
    DEF PicTypeOK, StartInitialization, SetVectors, RestoreMasks, SendEoi, AfterEoi,
        EndService, ClearMask
<1>3. TypeOK'
  <2>1. TypeOK
    BY DEF IInv
  <2>2. main' \in Stage /\ IF_' \in BOOLEAN /\ status' \in {"on", "halted", "reset"}
    BY <2>1 DEF TypeOK, Stage
  <2>3. saved' \subseteq IRQ
    BY <2>1 DEF TypeOK, PicTypeOK
  <2>4. i' = i \/ (i < 16 /\ i' = i + 1)
    OBVIOUS
  <2>5. i' \in 0 .. 16
    <3> DEFINE n == i
               m == i'
    <3>1. n \in 0 .. 16 /\ (m = n \/ (n < 16 /\ m = n + 1))
      BY <2>1, <2>4 DEF TypeOK
    <3> HIDE DEF n, m
    <3>2. m \in 0 .. 16
      BY <3>1
    <3> QED
      BY <3>2 DEF m
  <2> QED
    BY <1>1, <1>2, <2>1, <2>2, <2>3, <2>5 DEF TypeOK
<1>4. OffsetInv'
  BY DEF IInv, OffsetInv, StartInitialization, SetVectors, RestoreMasks, SendEoi, ClearMask
<1>5. FlagInv'
  BY <1>1 DEF IInv, FlagInv, Enabled
<1> QED
  BY <1>1, <1>3, <1>4, <1>5 DEF IInv

(* Steps of a handler that only move it to its next stage.                 *)
LEMMA GotoIInv ==
  ASSUME IInv, NEW stage \in FrameStage, frames # <<>>, Goto(stage),
         UNCHANGED <<main, offset, IF_, status>>,
         stage = "dump" => ~IsIrq(Top.vec),
         stage \in {"print", "eoi", "iret"} => IsIrq(Top.vec)
  PROVE  /\ frames' \in Seq(Frame) /\ Len(frames') <= MaxFrames
         /\ OffsetInv' /\ FlagInv'
         /\ \A k \in DOMAIN frames' : FrameInv(k)'
<1>1. frames \in Seq(Frame) /\ Len(frames) <= MaxFrames
  BY DEF IInv, TypeOK
<1>2. /\ frames' \in Seq(Frame) /\ frames' # <<>>
      /\ Len(frames') = Len(frames)
      /\ \A k \in 1 .. Len(frames) :
           /\ frames'[k].vec = frames[k].vec
           /\ frames'[k].irq = frames[k].irq
           /\ frames'[k].if = frames[k].if
           /\ frames'[k].stage = IF k = Len(frames) THEN stage ELSE frames[k].stage
  BY <1>1, GotoFacts
<1>3. OffsetInv' /\ FlagInv'
  BY <1>2 DEF IInv, OffsetInv, FlagInv, Enabled
<1>4. ASSUME NEW k \in DOMAIN frames' PROVE FrameInv(k)'
  <2>1. k \in 1 .. Len(frames) /\ FrameInv(k)
    BY <1>1, <1>2 DEF IInv
  <2>2. CASE k = Len(frames)
    BY <1>2, <2>1, <2>2 DEF FrameInv, Top, FrameStage, Enabled
  <2>3. CASE k # Len(frames)
    BY <1>2, <2>1, <2>3 DEF FrameInv, Enabled
  <2> QED
    BY <2>2, <2>3
<1> QED
  BY <1>1, <1>2, <1>3, <1>4

(* Entering a handler.                                                     *)
LEMMA EnterIInv ==
  ASSUME IInv, NEW vec \in 0 .. 255, NEW irq \in IRQ \union {NoIrq}, EnterHandler(vec, irq),
         UNCHANGED <<main, offset>>,
         IsIrq(vec) => IF_,
         ~IsIrq(vec) => irq = NoIrq,
         irq # NoIrq => vec = 32 + irq,
         irq = NoIrq => vec < 32 \/ vec = 32 + SPURIOUS
  PROVE  /\ frames' \in Seq(Frame) /\ Len(frames') <= MaxFrames
         /\ IF_' \in BOOLEAN /\ status' \in {"on", "reset"}
         /\ OffsetInv' /\ FlagInv'
         /\ \A k \in DOMAIN frames' : FrameInv(k)'
<1>1. frames \in Seq(Frame) /\ Len(frames) <= MaxFrames /\ IF_ \in BOOLEAN
  BY DEF IInv, TypeOK
<1>2. OffsetInv'
  BY DEF IInv, OffsetInv
<1>3. CASE status' = "reset" /\ frames # <<>> /\ UNCHANGED <<frames, IF_>>
  BY <1>1, <1>2, <1>3 DEF IInv, FlagInv, FrameInv, Enabled
<1>4. CASE /\ frames' \in Seq(Frame) /\ Len(frames') <= MaxFrames
           /\ Len(frames') = Len(frames) + 1
           /\ \A k \in 1 .. Len(frames) : frames'[k] = frames[k]
           /\ frames'[Len(frames) + 1] =
                [vec |-> vec, irq |-> irq, stage |-> "save", if |-> IF_]
           /\ status' = "on" /\ IF_' = FALSE
  <2>1. frames' # <<>> /\ Len(frames) \in Nat
    BY <1>1, <1>4
  <2>2. FlagInv'
    BY <1>4, <2>1 DEF FlagInv
  <2>3. ASSUME NEW k \in DOMAIN frames' PROVE FrameInv(k)'
    <3>1. k \in 1 .. Len(frames) + 1
      BY <1>4
    <3>2. CASE k \in 1 .. Len(frames)
      BY <1>1, <1>4, <3>2 DEF IInv, FrameInv, Enabled
    <3>3. CASE k = Len(frames) + 1
      <4>1. /\ frames'[k].vec = vec /\ frames'[k].irq = irq
            /\ frames'[k].stage = "save" /\ frames'[k].if = IF_
        BY <1>4, <3>3
      <4>2. IF_ <=> (k = 1 /\ Enabled)
        BY <1>1, <3>3, <2>1 DEF IInv, FlagInv
      <4>3. Enabled' <=> Enabled
        BY DEF Enabled
      <4> QED
        BY <4>1, <4>2, <4>3 DEF FrameInv
    <3> QED
      BY <3>1, <3>2, <3>3, <2>1
  <2> QED
    BY <1>2, <1>4, <2>2, <2>3
<1>5. \/ status' = "reset" /\ frames # <<>> /\ UNCHANGED <<frames, IF_>>
      \/ /\ frames' \in Seq(Frame) /\ Len(frames') <= MaxFrames
         /\ Len(frames') = Len(frames) + 1
         /\ \A k \in 1 .. Len(frames) : frames'[k] = frames[k]
         /\ frames'[Len(frames) + 1] =
              [vec |-> vec, irq |-> irq, stage |-> "save", if |-> IF_]
         /\ status' = "on" /\ IF_' = FALSE
  BY <1>1, EnterFacts
<1> QED
  BY <1>3, <1>4, <1>5

---------------------------------------------------------------------------
(* TypeOK of a step that leaves most of the state alone, from its parts.   *)
LEMMA KeepTypes ==
  ASSUME TypeOK, PicTypeOK', frames' \in Seq(Frame), Len(frames') <= MaxFrames,
         IF_' \in BOOLEAN, status' \in {"on", "halted", "reset"}, obf' \in BOOLEAN,
         UNCHANGED <<main, saved, i, context, backlog, typed, ticks>>
  PROVE  TypeOK'
BY DEF TypeOK

(* The operations of the PIC keep its registers within their types.        *)
LEMMA PicTypes ==
  ASSUME PicTypeOK,
         \/ \E q \in IRQ : Acknowledge(q) \/ Withdraw(q) \/ Edge(q)
         \/ SendEoi(0) \/ UNCHANGED picVars
  PROVE  PicTypeOK' /\ offset' = offset
<1>1. CASE \E q \in IRQ : Acknowledge(q)
  <2>1. PICK q \in IRQ : Acknowledge(q)
    BY <1>1
  <2>2. isr' \in {isr \union {q}, isr \union {CASCADE, q}}
    BY <2>1 DEF Acknowledge
  <2> QED
    BY <2>1, <2>2 DEF PicTypeOK, Acknowledge, IRQ, CASCADE
<1>2. CASE \E q \in IRQ : Withdraw(q) \/ Edge(q)
  BY <1>2 DEF PicTypeOK, Withdraw, Edge
<1>3. CASE SendEoi(0)
  BY <1>3 DEF PicTypeOK, SendEoi, AfterEoi, EndService
<1>4. CASE UNCHANGED picVars
  BY <1>4 DEF PicTypeOK, picVars
<1> QED
  BY <1>1, <1>2, <1>3, <1>4

(* Interrupts and exceptions that enter a handler.                         *)
LEMMA DeliverIInv ==
  ASSUME IInv,
         \/ \E q \in IRQ : DeliverIrq(q)
         \/ DeliverSpurious
         \/ \E vec \in Traps : Trap(vec)
         \/ SaveState /\ context # "page"
  PROVE  IInv'
<1>1. TypeOK /\ PicTypeOK /\ obf \in BOOLEAN
  BY DEF IInv, TypeOK
<1>2. PicTypeOK' /\ offset' = offset
  BY <1>1, PicTypes DEF DeliverIrq, DeliverSpurious, Trap, SaveState, TIMER, IRQ
<1>3. UNCHANGED <<main, saved, i, context, obf, backlog, typed, ticks>>
  BY DEF DeliverIrq, DeliverSpurious, Trap, SaveState, Interrupted, bootVars, kbVars
<1>4. IF_ => Enabled /\ offset = [master |-> 32, slave |-> 40]
  BY DEF IInv, FlagInv, OffsetInv, Enabled
<1>5. \E vec \in 0 .. 255, irq \in IRQ \union {NoIrq} :
        /\ EnterHandler(vec, irq)
        /\ IsIrq(vec) => IF_
        /\ ~IsIrq(vec) => irq = NoIrq
        /\ irq # NoIrq => vec = 32 + irq
        /\ irq = NoIrq => vec < 32 \/ vec = 32 + SPURIOUS
  <2>1. CASE \E q \in IRQ : DeliverIrq(q)
    <3>1. PICK q \in IRQ : DeliverIrq(q)
      BY <2>1
    <3>2. IF_ /\ EnterHandler(VectorOf(q), q)
      BY <3>1 DEF DeliverIrq
    <3>3. VectorOf(q) = 32 + q
      BY <1>4, <3>2 DEF VectorOf, Master, IRQ
    <3> QED
      BY <3>2, <3>3 DEF IRQ, NoIrq, IsIrq
  <2>2. CASE DeliverSpurious
    <3>1. IF_ /\ EnterHandler(39, NoIrq)
      BY <1>4, <2>2 DEF DeliverSpurious, SPURIOUS
    <3> QED
      BY <3>1 DEF IsIrq, SPURIOUS
  <2>3. CASE \E vec \in Traps : Trap(vec)
    <3>1. PICK vec \in 0 .. 31 : EnterHandler(vec, NoIrq)
      BY <2>3, InterruptsAssumption DEF Trap
    <3> QED
      BY <3>1 DEF IsIrq
  <2>4. CASE SaveState /\ context # "page"
    <3>1. EnterHandler(14, NoIrq)
      BY <2>4 DEF SaveState, PAGE_FAULT
    <3> QED
      BY <3>1 DEF IsIrq
  <2> QED
    BY <2>1, <2>2, <2>3, <2>4
<1>6. /\ frames' \in Seq(Frame) /\ Len(frames') <= MaxFrames
      /\ IF_' \in BOOLEAN /\ status' \in {"on", "reset"}
      /\ OffsetInv' /\ FlagInv'
      /\ \A k \in DOMAIN frames' : FrameInv(k)'
  BY <1>2, <1>3, <1>5, EnterIInv
<1>7. TypeOK'
  BY <1>1, <1>2, <1>3, <1>6, KeepTypes
<1> QED
  BY <1>6, <1>7 DEF IInv

(* The stages of generic_handler that stay on the frame they run in.       *)
LEMMA HandlerIInv ==
  ASSUME IInv,
         \/ SaveState /\ context = "page"
         \/ KeyboardIrq \/ TimerIrq \/ UnknownIrq \/ PrintIrq \/ AckIrq \/ Exception
  PROVE  IInv'
<1>1. TypeOK /\ PicTypeOK
  BY DEF IInv, TypeOK
<1>2. PicTypeOK' /\ offset' = offset
  BY <1>1, PicTypes
  DEF SaveState, KeyboardIrq, TimerIrq, UnknownIrq, PrintIrq, AckIrq, Exception
<1>3. frames # <<>> /\ UNCHANGED <<main, saved, i, IF_, status, context, backlog, typed, ticks>>
  BY DEF SaveState, KeyboardIrq, TimerIrq, UnknownIrq, PrintIrq, AckIrq, Exception,
         HandlerAt, Interrupted, bootVars, kbVars
<1>4. obf' \in BOOLEAN
  BY <1>1 DEF TypeOK, SaveState, KeyboardIrq, TimerIrq, UnknownIrq, PrintIrq, AckIrq,
              Exception, Interrupted, kbVars
<1>5. Len(frames) \in DOMAIN frames /\ FrameInv(Len(frames))
  BY <1>1, <1>3 DEF TypeOK, IInv
<1>6. \E stage \in FrameStage :
        /\ Goto(stage)
        /\ stage = "dump" => ~IsIrq(Top.vec)
        /\ stage \in {"print", "eoi", "iret"} => IsIrq(Top.vec)
  <2>1. CASE SaveState /\ context = "page"
    BY <2>1 DEF SaveState, FrameStage
  <2>2. CASE KeyboardIrq \/ TimerIrq \/ UnknownIrq
    BY <2>2 DEF KeyboardIrq, TimerIrq, UnknownIrq, FrameStage, IsIrq
  <2>3. CASE PrintIrq \/ AckIrq
    <3>1. IsIrq(Top.vec)
      BY <1>5, <2>3 DEF FrameInv, PrintIrq, AckIrq, HandlerAt, Top
    <3> QED
      BY <2>3, <3>1 DEF PrintIrq, AckIrq, FrameStage
  <2>4. CASE Exception
    BY <2>4 DEF Exception, FrameStage
  <2> QED
    BY <2>1, <2>2, <2>3, <2>4
<1>7. /\ frames' \in Seq(Frame) /\ Len(frames') <= MaxFrames
      /\ OffsetInv' /\ FlagInv'
      /\ \A k \in DOMAIN frames' : FrameInv(k)'
  BY <1>2, <1>3, <1>6, GotoIInv
<1>8. IF_' \in BOOLEAN /\ status' \in {"on", "halted", "reset"}
  BY <1>1, <1>3 DEF TypeOK
<1>9. TypeOK'
  BY <1>1, <1>2, <1>3, <1>4, <1>7, <1>8, KeepTypes
<1> QED
  BY <1>7, <1>9 DEF IInv

(* The return of a handler, and the panic in one.                          *)
LEMMA ReturnIInv == ASSUME IInv, Iretq \/ HandlerPanics PROVE IInv'
<1>1. /\ TypeOK /\ PicTypeOK /\ frames \in Seq(Frame) /\ Len(frames) <= MaxFrames
      /\ obf \in BOOLEAN /\ offset \in [master : 0 .. 248, slave : 0 .. 248]
  BY DEF IInv, TypeOK, PicTypeOK
<1>2. /\ UNCHANGED <<main, saved, i, context, obf, backlog, typed, ticks>>
      /\ UNCHANGED picVars /\ frames # <<>>
  BY DEF Iretq, HandlerPanics, HandlerAt, Interrupted, bootVars, kbVars
<1>3. PicTypeOK' /\ offset' = offset
  BY <1>1, <1>2 DEF PicTypeOK, picVars
<1>4. CASE Iretq
  <2>1. Len(frames) \in 1 .. Len(frames) /\ FrameInv(Len(frames)) /\ Top.stage = "iret"
    BY <1>1, <1>2, <1>4 DEF IInv, Iretq, HandlerAt
  <2>2. Len(frames) = 1 /\ (Top.if <=> Enabled) /\ Top.if \in BOOLEAN
    <3>1. IsIrq(Top.vec)
      BY <2>1 DEF FrameInv, Top
    <3>2. Len(frames) = 1
      BY <2>1, <3>1 DEF FrameInv, Top
    <3>3. Top \in Frame
      BY <1>1, <2>1 DEF Top
    <3>4. Top.if \in BOOLEAN
      BY <3>3 DEF Frame
    <3>5. Top.if <=> Enabled
      BY <2>1, <3>2 DEF FrameInv, Top
    <3> QED
      BY <3>2, <3>4, <3>5
  <2>3. frames' = <<>>
    BY <1>1, <1>4, <2>2 DEF Iretq
  <2>4. IF_' = Top.if /\ status' = status /\ status = "on"
    BY <1>4 DEF Iretq, HandlerAt
  <2>5. IF_' \in BOOLEAN /\ (IF_' <=> Enabled)
    BY <2>2, <2>4
  <2>6. FlagInv' /\ OffsetInv'
    BY <1>2, <1>3, <2>3, <2>4, <2>5 DEF IInv, FlagInv, OffsetInv, Enabled
  <2>7. TypeOK'
    <3>1. frames' \in Seq(Frame) /\ Len(frames') <= MaxFrames
      BY <2>3, InterruptsAssumption
    <3> QED
      BY <1>1, <1>2, <1>3, <2>4, <2>5, <3>1, KeepTypes
  <2> QED
    BY <2>3, <2>6, <2>7 DEF IInv
<1>5. CASE HandlerPanics
  <2>1. frames' = frames /\ IF_' = FALSE /\ status' = "halted"
    BY <1>5 DEF HandlerPanics, Hcf
  <2>2. IF_' \in BOOLEAN
    BY <2>1, Zenon
  <2>3. TypeOK'
    BY <1>1, <1>2, <1>3, <2>1, <2>2, KeepTypes
  <2>4. FlagInv' /\ OffsetInv'
    BY <1>2, <1>3, <2>1 DEF IInv, FlagInv, OffsetInv, Enabled
  <2>5. \A k \in DOMAIN frames' : FrameInv(k)'
    BY <1>2, <2>1 DEF IInv, FrameInv, Enabled
  <2> QED
    BY <2>3, <2>4, <2>5 DEF IInv
<1> QED
  BY <1>4, <1>5

(* The devices touch the PIC's requests and their own state.               *)
LEMMA DeviceIInv ==
  ASSUME IInv, Tick \/ Type \/ LoadByte \/ \E q \in DeviceLines : Device(q)
  PROVE  IInv'
<1>1. TypeOK /\ PicTypeOK
  BY DEF IInv, TypeOK
<1>2. UNCHANGED <<main, saved, i, IF_, frames, context, status, offset>>
  BY DEF Tick, Type, LoadByte, Device, Devices, bootVars, Edge, picVars
<1>3. PicTypeOK'
  <2>1. \/ \E q \in IRQ : Edge(q)
        \/ UNCHANGED picVars
    BY InterruptsAssumption DEF Tick, Type, LoadByte, Device, TIMER, KEYBOARD, IRQ
  <2> QED
    BY <1>1, <2>1, PicTypes
<1>4. obf' \in BOOLEAN /\ backlog' \in Nat /\ typed' \in Nat /\ ticks' \in Nat
  <2>1. obf \in BOOLEAN /\ backlog \in Nat /\ typed \in Nat /\ ticks \in Nat
    BY <1>1 DEF TypeOK
  <2>2. CASE Tick
    BY <2>1, <2>2 DEF Tick, kbVars
  <2>3. CASE Type
    BY <2>1, <2>3 DEF Type
  <2>4. CASE LoadByte
    <3>1. obf' = TRUE /\ UNCHANGED <<typed, ticks>>
      BY <2>4 DEF LoadByte
    <3>2. backlog' \in Nat
      BY <2>1, <2>4 DEF LoadByte
    <3> QED
      BY <2>1, <3>1, <3>2
  <2>5. CASE \E q \in DeviceLines : Device(q)
    BY <2>1, <2>5 DEF Device, kbVars
  <2> QED
    BY <2>2, <2>3, <2>4, <2>5
<1>5. TypeOK'
  BY <1>1, <1>2, <1>3, <1>4 DEF TypeOK
<1> QED
  BY <1>2, <1>5 DEF IInv, OffsetInv, FlagInv, FrameInv, Enabled

(* Each action in turn.                                                    *)
LEMMA StepIInv == IInv /\ [Next]_vars => IInv'
<1> SUFFICES ASSUME IInv, [Next]_vars PROVE IInv'
  OBVIOUS
<1>1. CASE Boot \/ Panic \/ MainHalts \/ \E q \in DriverLines : DriverUnmasks(q)
  BY <1>1, MainIInv
<1>2. CASE Handler
  BY <1>2, HandlerIInv, DeliverIInv, ReturnIInv DEF Handler
<1>3. CASE \/ \E q \in IRQ : DeliverIrq(q)
           \/ DeliverSpurious
           \/ \E vec \in Traps : Trap(vec)
  BY <1>3, DeliverIInv
<1>4. CASE Tick \/ Type \/ LoadByte \/ \E q \in DeviceLines : Device(q)
  BY <1>4, DeviceIInv
<1>5. CASE UNCHANGED vars
  BY <1>5 DEF vars, IInv, TypeOK, PicTypeOK, OffsetInv, FlagInv, FrameInv, Enabled
<1> QED
  BY <1>1, <1>2, <1>3, <1>4, <1>5 DEF Next

(* The invariant holds of the kernel.                                      *)
THEOREM InvariantHolds == Spec => []IInv
<1>1. Init => IInv
  BY InitIInv
<1>2. IInv /\ [Next]_vars => IInv'
  BY StepIInv
<1> QED
  BY <1>1, <1>2, PTL DEF Spec

(* The registers of the PIC, the stages of the kernel and the frames of    *)
(* the handlers keep their types.                                          *)
THEOREM TypeCorrect == Spec => []TypeOK
<1>1. IInv => TypeOK
  BY DEF IInv
<1> QED
  BY <1>1, InvariantHolds, PTL

(* A handler of an IRQ is only ever right above the main thread: it never  *)
(* interrupts another, nor the handler of an exception.                    *)
THEOREM HandlersDoNotNest == Spec => []IrqsDoNotNest
<1>1. IInv => IrqsDoNotNest
  BY DEF IInv, FrameInv, IrqsDoNotNest
<1> QED
  BY <1>1, InvariantHolds, PTL

(* Devices and exceptions never share a vector.                            *)
THEOREM DistinctVectors == Spec => []VectorsAreDistinct
<1>1. IInv => VectorsAreDistinct
  BY DEF IInv, FrameInv, VectorsAreDistinct
<1> QED
  BY <1>1, InvariantHolds, PTL

(* The main thread runs with interrupts enabled from sti to hcf.           *)
THEOREM FlagIsRestored == Spec => []FlagRestored
<1>1. IInv => FlagRestored
  BY DEF IInv, FlagInv, FlagRestored, Enabled
<1> QED
  BY <1>1, InvariantHolds, PTL

(* Once hcf has halted the CPU no interrupt is taken and the main thread   *)
(* moves no further; an NMI runs, with the flag clear.                     *)
LEMMA HaltedSteps ==
  ASSUME IInv, [Next]_vars, status = "halted"
  PROVE  ~IF_' /\ isr' = isr /\ main' = main
<1>1. ~IF_ /\ IF_ \in BOOLEAN
  BY DEF IInv, TypeOK, FlagInv, Enabled
<1>2. \/ \E vec \in Traps : Trap(vec)
      \/ Tick \/ Type \/ LoadByte \/ \E q \in DeviceLines : Device(q)
      \/ UNCHANGED vars
  BY <1>1
  DEF Next, Boot, LoadIdt, RemapInitialize, RemapVectors, RemapMasks, Flush, UnmaskTimer,
      UnmaskKeyboard, EnableInterrupts, Panic, MainHalts, DriverUnmasks, MainAt, Handler,
      SaveState, KeyboardIrq, TimerIrq, UnknownIrq, PrintIrq, AckIrq, Iretq, Exception,
      HandlerPanics, HandlerAt, DeliverIrq, DeliverSpurious
<1>3. CASE \E vec \in Traps : Trap(vec)
  BY <1>1, <1>3 DEF Trap, EnterHandler, Interrupted, bootVars, picVars
<1>4. CASE Tick \/ Type \/ LoadByte \/ \E q \in DeviceLines : Device(q)
  BY <1>1, <1>4 DEF Tick, Type, LoadByte, Device, Devices, Edge, bootVars, picVars
<1>5. CASE UNCHANGED vars
  BY <1>1, <1>5 DEF vars
<1> QED
  BY <1>2, <1>3, <1>4, <1>5

(* A halted CPU keeps its interrupt flag clear, its main thread does not go*)
(* on and no service starts or ends; an NMI may still run its handler.     *)
THEOREM HaltStays == Spec => HaltIsFinal
<1>1. IInv /\ [Next]_vars =>
        [status = "halted" => ~IF_' /\ isr' = isr /\ main' = main]_vars
  BY HaltedSteps
<1> QED
  BY <1>1, InvariantHolds, PTL DEF Spec, HaltIsFinal

---------------------------------------------------------------------------
(* Service and acknowledgement agree as long as no driver unmasks a line   *)
(* of the slave, which today's kernel does not.                            *)
SlaveLines == Slave \union {CASCADE}

MasterOnly ==
  /\ DriverLines \intersect SlaveLines = {}
  /\ \A mask \in BootMasks : SlaveLines \subseteq mask

(* The slave is masked, or will be before interrupts are enabled.          *)
MaskInv ==
  IF main \in {"vectors", "masks"} THEN SlaveLines \subseteq saved ELSE SlaveLines \subseteq imr

(* Some handler has a service to end.                                      *)
Pending == frames # <<>> /\ frames[1].irq # NoIrq /\ frames[1].stage # "iret"

ServiceInv ==
  /\ MaskInv
  /\ Pending => frames[1].irq \in Master /\ isr = {frames[1].irq}
  /\ ~Pending => isr = {}

(* An EOI ends the only service of the master, and does nothing when there *)
(* is none.                                                                *)
LEMMA NoServiceEoi == ASSUME NEW irq \in 0 .. 15 PROVE AfterEoi(irq, {}) = {}
BY DEF AfterEoi, EndService, Highest

(* An EOI ends the only service of the master.                             *)
LEMMA MasterEoi == ASSUME NEW q \in Master PROVE AfterEoi(0, {q}) = {}
<1>1. q <= q
  BY DEF Master
<1>2. {q} \intersect Master = {q} /\ Highest({q}) = {q}
  BY <1>1 DEF Highest
<1>3. EndService(Master, {q}) = {}
  BY <1>2 DEF EndService
<1> QED
  BY <1>3 DEF AfterEoi

(* The main thread starts no service.                                      *)
LEMMA MainService ==
  ASSUME MasterOnly, IInv, ServiceInv,
         Boot \/ Panic \/ MainHalts \/ \E q \in DriverLines : DriverUnmasks(q)
  PROVE  ServiceInv'
<1> USE DEF MainAt, Quiet, kbVars, picVars, Boot, LoadIdt, RemapInitialize, RemapVectors,
            RemapMasks, Flush, UnmaskTimer, UnmaskKeyboard, EnableInterrupts, Panic,
            MainHalts, Hcf, DriverUnmasks, bootVars
<1>1. frames = <<>> /\ frames' = <<>> /\ isr = {}
  BY DEF ServiceInv, Pending
<1>2. i \in 0 .. 16
  BY DEF IInv, TypeOK
<1>3. isr' = {}
  <2>1. CASE Flush
    <3>1. CASE i < 16
      <4>1. i \in 0 .. 15
        <5> DEFINE n == i
        <5>1. n \in 0 .. 16 /\ n < 16
          BY <1>2, <3>1
        <5> HIDE DEF n
        <5>2. n \in 0 .. 15
          BY <5>1
        <5> QED
          BY <5>2 DEF n
      <4>2. isr' = AfterEoi(i, {})
        BY <1>1, <2>1, <3>1 DEF SendEoi
      <4> QED
        BY <4>1, <4>2, NoServiceEoi
    <3>2. CASE ~(i < 16)
      BY <1>1, <2>1, <3>2
    <3> QED
      BY <3>1, <3>2
  <2>2. CASE ~Flush
    BY <1>1, <2>2 DEF StartInitialization, SetVectors, RestoreMasks, ClearMask
  <2> QED
    BY <2>1, <2>2
<1>4. MaskInv'
  BY DEF ServiceInv, MaskInv, MasterOnly, SlaveLines, Slave, CASCADE, TIMER, KEYBOARD,
         StartInitialization, SetVectors, RestoreMasks, SendEoi, ClearMask
<1> QED
  BY <1>1, <1>3, <1>4 DEF ServiceInv, Pending

(* An interrupt starts the service of the handler it enters, or none.      *)
LEMMA DeliverService ==
  ASSUME MasterOnly, IInv, ServiceInv,
         \/ \E q \in IRQ : DeliverIrq(q)
         \/ DeliverSpurious
         \/ \E vec \in Traps : Trap(vec)
         \/ SaveState /\ context # "page"
  PROVE  ServiceInv'
<1>1. /\ frames \in Seq(Frame) /\ Len(frames) <= MaxFrames /\ IF_ \in BOOLEAN
      /\ Len(frames) \in Nat
  BY DEF IInv, TypeOK
<1>2. IF_ => frames = <<>> /\ isr = {} /\ SlaveLines \subseteq imr
  BY DEF IInv, FlagInv, Enabled, ServiceInv, Pending, MaskInv
<1>3. MaskInv'
  BY DEF ServiceInv, MaskInv, DeliverIrq, DeliverSpurious, Trap, SaveState, Interrupted,
         bootVars, Acknowledge, Withdraw, picVars
<1>4. CASE \E q \in IRQ : DeliverIrq(q)
  <2>1. PICK q \in IRQ : DeliverIrq(q)
    BY <1>4
  <2>2. q \in Master /\ isr' = {q}
    <3>1. Acknowledge(q) /\ isr = {} /\ CASCADE \in imr
      BY <1>2, <2>1 DEF DeliverIrq, SlaveLines
    <3>2. CASCADE \notin MasterRequests
      BY <3>1 DEF MasterRequests
    <3>3. q \in MasterRequests \ {CASCADE} /\ isr' = isr \union {q}
      BY <3>1, <3>2 DEF Acknowledge, Highest
    <3> QED
      BY <3>1, <3>3 DEF MasterRequests
  <2>3. /\ VectorOf(q) \in 0 .. 255
        /\ IF_ /\ EnterHandler(VectorOf(q), q)
    <3>1. IF_ /\ offset = [master |-> 32, slave |-> 40] /\ EnterHandler(VectorOf(q), q)
      BY <2>1 DEF DeliverIrq, IInv, FlagInv, OffsetInv, Enabled
    <3> QED
      BY <2>2, <3>1 DEF VectorOf, Master
  <2>4. frames' # <<>> /\ frames'[1].irq = q /\ frames'[1].stage = "save"
    <3>1. frames'[Len(frames) + 1] =
            [vec |-> VectorOf(q), irq |-> q, stage |-> "save", if |-> IF_]
      BY <1>1, <1>2, <2>3, EnterFacts
    <3>2. Len(frames) = 0 /\ Len(frames') = Len(frames) + 1
      BY <1>1, <1>2, <2>3, EnterFacts
    <3>3. frames'[1] = [vec |-> VectorOf(q), irq |-> q, stage |-> "save", if |-> IF_]
      BY <3>1, <3>2
    <3> QED
      BY <3>2, <3>3
  <2> QED
    BY <1>3, <2>2, <2>4 DEF ServiceInv, Pending, Master, NoIrq
<1>5. CASE \/ DeliverSpurious
           \/ \E vec \in Traps : Trap(vec)
           \/ SaveState /\ context # "page"
  <2>1. isr' = isr
    BY <1>5 DEF DeliverSpurious, Trap, SaveState, Withdraw, picVars
  <2>2. \E vec \in 0 .. 255 : EnterHandler(vec, NoIrq)
    <3>1. CASE DeliverSpurious
      <4>1. offset = [master |-> 32, slave |-> 40]
        BY <3>1 DEF DeliverSpurious, IInv, FlagInv, OffsetInv, Enabled
      <4>2. EnterHandler(39, NoIrq)
        BY <3>1, <4>1 DEF DeliverSpurious, SPURIOUS
      <4> QED
        BY <4>2
    <3>2. CASE \E vec \in Traps : Trap(vec)
      BY <3>2, InterruptsAssumption DEF Trap
    <3>3. CASE SaveState /\ context # "page"
      BY <3>3 DEF SaveState, PAGE_FAULT
    <3> QED
      BY <1>5, <3>1, <3>2, <3>3
  <2>3. PICK vec \in 0 .. 255 : EnterHandler(vec, NoIrq)
    BY <2>2
  <2>4. \/ UNCHANGED frames
        \/ /\ Len(frames') = Len(frames) + 1
           /\ \A k \in 1 .. Len(frames) : frames'[k] = frames[k]
           /\ frames'[Len(frames) + 1] =
                [vec |-> vec, irq |-> NoIrq, stage |-> "save", if |-> IF_]
    BY <1>1, <2>3, EnterFacts
  <2>5. Pending' <=> Pending
    <3>1. CASE UNCHANGED frames
      BY <3>1 DEF Pending
    <3>2. CASE frames = <<>> /\ frames' # frames
      <4>1. frames'[1] = [vec |-> vec, irq |-> NoIrq, stage |-> "save", if |-> IF_]
        BY <2>4, <3>2
      <4> QED
        BY <3>2, <4>1 DEF Pending
    <3>3. CASE frames # <<>> /\ frames' # frames
      <4>1. frames' # <<>> /\ frames'[1] = frames[1]
        BY <1>1, <2>4, <3>3
      <4> QED
        BY <3>3, <4>1 DEF Pending
    <3> QED
      BY <3>1, <3>2, <3>3
  <2>6. Pending => frames'[1] = frames[1]
    BY <1>1, <2>4 DEF Pending
  <2> QED
    BY <1>3, <2>1, <2>5, <2>6 DEF ServiceInv
<1> QED
  BY <1>4, <1>5

(* The handler's EOI ends its own service.                                 *)
LEMMA HandlerService ==
  ASSUME IInv, ServiceInv,
         \/ SaveState /\ context = "page"
         \/ KeyboardIrq \/ TimerIrq \/ UnknownIrq \/ PrintIrq \/ AckIrq \/ Exception
         \/ Iretq \/ HandlerPanics
  PROVE  ServiceInv'
<1>1. frames \in Seq(Frame) /\ frames # <<>> /\ Len(frames) \in Nat \ {0}
  BY DEF IInv, TypeOK, SaveState, KeyboardIrq, TimerIrq, UnknownIrq, PrintIrq, AckIrq,
         Exception, Iretq, HandlerPanics, HandlerAt
<1>2. FrameInv(Len(frames)) /\ FrameInv(1)
  BY <1>1 DEF IInv
<1>3. MaskInv'
  BY DEF ServiceInv, MaskInv, SaveState, KeyboardIrq, TimerIrq, UnknownIrq, PrintIrq, AckIrq,
         Exception, Iretq, HandlerPanics, SendEoi, Interrupted, bootVars, picVars
<1>4. CASE AckIrq
  <2>1. Len(frames) = 1 /\ frames[1].stage = "eoi"
    <3>1. Top.stage = "eoi"
      BY <1>4 DEF AckIrq, HandlerAt
    <3>2. Len(frames) = 1
      BY <1>2, <3>1 DEF FrameInv, Top
    <3> QED
      BY <3>1, <3>2 DEF Top
  <2>2. isr' = AfterEoi(0, isr) /\ Goto("iret")
    BY <1>4 DEF AckIrq, SendEoi
  <2>3. isr' = {}
    <3>1. CASE Pending
      <4>1. PICK q \in Master : isr = {q}
        BY <3>1 DEF ServiceInv
      <4> QED
        BY <2>2, <4>1, MasterEoi
    <3>2. CASE ~Pending
      <4>1. isr = {}
        BY <3>2 DEF ServiceInv
      <4> QED
        BY <2>2, <4>1, NoServiceEoi
    <3> QED
      BY <3>1, <3>2
  <2>4. frames'[1].stage = "iret"
    BY <1>1, <2>1, <2>2, GotoFacts DEF FrameStage
  <2> QED
    BY <1>3, <2>3, <2>4 DEF ServiceInv, Pending
<1>5. CASE Iretq
  <2>1. Len(frames) = 1 /\ frames[1].stage = "iret"
    <3>1. Top.stage = "iret"
      BY <1>5 DEF Iretq, HandlerAt
    <3>2. Len(frames) = 1
      BY <1>2, <3>1 DEF FrameInv, Top
    <3> QED
      BY <3>1, <3>2 DEF Top
  <2>2. frames' = <<>> /\ isr' = isr
    BY <1>1, <1>5, <2>1 DEF Iretq, picVars
  <2> QED
    BY <1>3, <2>1, <2>2 DEF ServiceInv, Pending
<1>6. CASE HandlerPanics
  BY <1>3, <1>6 DEF HandlerPanics, ServiceInv, Pending, picVars
<1>7. CASE \/ SaveState /\ context = "page"
           \/ KeyboardIrq \/ TimerIrq \/ UnknownIrq \/ PrintIrq \/ Exception
  <2>1. isr' = isr
    BY <1>7 DEF SaveState, KeyboardIrq, TimerIrq, UnknownIrq, PrintIrq, Exception, picVars
  <2>2. \E stage \in FrameStage \ {"iret"} : Goto(stage)
    BY <1>7 DEF SaveState, KeyboardIrq, TimerIrq, UnknownIrq, PrintIrq, Exception, FrameStage
  <2>3. frames[Len(frames)].stage # "iret"
    BY <1>7 DEF SaveState, KeyboardIrq, TimerIrq, UnknownIrq, PrintIrq, Exception, HandlerAt,
                Top
  <2>4. PICK stage \in FrameStage \ {"iret"} : Goto(stage)
    BY <2>2
  <2>5. /\ frames' # <<>> /\ frames'[1].irq = frames[1].irq
        /\ frames'[1].stage = IF Len(frames) = 1 THEN stage ELSE frames[1].stage
    <3>1. 1 \in 1 .. Len(frames) /\ stage \in FrameStage /\ Goto(stage)
      BY <1>1, <2>4
    <3>2. /\ frames' # <<>>
          /\ \A k \in 1 .. Len(frames) :
               /\ frames'[k].irq = frames[k].irq
               /\ frames'[k].stage = IF k = Len(frames) THEN stage ELSE frames[k].stage
      BY <1>1, <3>1, GotoFacts
    <3> QED
      BY <3>1, <3>2
  <2>6. Pending' <=> Pending
    BY <1>1, <2>3, <2>4, <2>5 DEF Pending
  <2> QED
    BY <1>3, <2>1, <2>5, <2>6 DEF ServiceInv
<1> QED
  BY <1>4, <1>5, <1>6, <1>7

(* Devices change requests only.                                           *)
LEMMA DeviceService ==
  ASSUME ServiceInv, Tick \/ Type \/ LoadByte \/ \E q \in DeviceLines : Device(q)
  PROVE  ServiceInv'
BY DEF Tick, Type, LoadByte, Device, Devices, Edge, bootVars, picVars, ServiceInv, MaskInv,
       Pending

(* Each action in turn.                                                    *)
LEMMA StepService == MasterOnly /\ IInv /\ ServiceInv /\ [Next]_vars => ServiceInv'
<1> SUFFICES ASSUME MasterOnly, IInv, ServiceInv, [Next]_vars PROVE ServiceInv'
  OBVIOUS
<1>1. CASE Boot \/ Panic \/ MainHalts \/ \E q \in DriverLines : DriverUnmasks(q)
  BY <1>1, MainService
<1>2. CASE Handler
  BY <1>2, HandlerService, DeliverService DEF Handler
<1>3. CASE \/ \E q \in IRQ : DeliverIrq(q)
           \/ DeliverSpurious
           \/ \E vec \in Traps : Trap(vec)
  BY <1>3, DeliverService
<1>4. CASE Tick \/ Type \/ LoadByte \/ \E q \in DeviceLines : Device(q)
  BY <1>4, DeviceService
<1>5. CASE UNCHANGED vars
  BY <1>5 DEF vars, ServiceInv, MaskInv, Pending
<1> QED
  BY <1>1, <1>2, <1>3, <1>4, <1>5 DEF Next

(* Only the outermost frame has a line, so what is unacknowledged is the   *)
(* line of that frame or nothing.                                          *)
LEMMA ServiceImplied == IInv /\ ServiceInv => ServiceMatches
<1> SUFFICES ASSUME IInv, ServiceInv PROVE isr = Unacknowledged
  BY DEF ServiceMatches
<1>1. frames \in Seq(Frame) /\ DOMAIN frames = 1 .. Len(frames) /\ Len(frames) \in Nat
  BY DEF IInv, TypeOK
<1>2. \A k \in DOMAIN frames : frames[k].irq # NoIrq => k = 1
  BY DEF IInv, FrameInv
<1>3. CASE Pending
  <2>1. 1 \in DOMAIN frames /\ frames[1].irq # NoIrq /\ frames[1].stage # "iret"
    BY <1>1, <1>3 DEF Pending
  <2>2. Unacknowledged = {frames[1].irq}
    BY <1>2, <2>1 DEF Unacknowledged
  <2> QED
    BY <1>3, <2>2 DEF ServiceInv
<1>4. CASE ~Pending
  <2>1. \A k \in DOMAIN frames : frames[k].irq # NoIrq => frames[k].stage = "iret"
    BY <1>1, <1>2, <1>4 DEF Pending
  <2>2. Unacknowledged = {}
    BY <2>1 DEF Unacknowledged
  <2> QED
    BY <1>4, <2>2 DEF ServiceInv
<1> QED
  BY <1>3, <1>4

(* A line of the master is in service exactly while its handler runs and   *)
(* has not acknowledged it, whatever the devices and exceptions do, as     *)
(* long as the slave stays masked.                                         *)
THEOREM ServiceFollowsHandlers == ASSUME MasterOnly PROVE Spec => []ServiceMatches
<1>1. Init => ServiceInv
  BY InterruptsAssumption, MasterOnly
  DEF Init, ServiceInv, MaskInv, Pending, MasterOnly
<1>2. IInv /\ ServiceInv /\ [Next]_vars => ServiceInv'
  BY StepService
<1>3. IInv /\ ServiceInv => ServiceMatches
  BY ServiceImplied
<1> QED
  BY <1>1, <1>2, <1>3, InvariantHolds, PTL DEF Spec
=============================================================================
