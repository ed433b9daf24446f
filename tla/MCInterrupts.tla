--------------------------- MODULE MCInterrupts ---------------------------
(***************************************************************************)
(* Instances of Interrupts for TLC.  The bootloader hands over with every  *)
(* line of the PIC masked.                                                 *)
(***************************************************************************)
EXTENDS Interrupts

MCAllMasked == {IRQ}
MCAfterFlush == {"timer", "keyboard", "enable", "run", "panic", "done"}
MCAnyStage == Stage
===========================================================================
