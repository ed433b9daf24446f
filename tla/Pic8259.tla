------------------------------ MODULE Pic8259 ------------------------------
(***************************************************************************)
(* The cascaded 8259 interrupt controllers as pic_8259.c drives them, in   *)
(* edge-triggered, fully nested mode with a non-specific end of interrupt. *)
(* Lines 0..7 are the master's, 8..15 the slave's; the slave requests      *)
(* through the master's line 2.  The driver's operations follow the code;  *)
(* how the chips answer (Acknowledge, Withdraw and what an ICW1 or an EOI  *)
(* does to their registers) is their data sheet's.                         *)
(***************************************************************************)
EXTENDS Integers

IRQ      == 0 .. 15
Master   == 0 .. 7
Slave    == 8 .. 15
CASCADE  == 2
TIMER    == 0
KEYBOARD == 1
SPURIOUS == 7    (* what the master answers when the request has gone      *)

VARIABLES
  irr,       (* lines whose edge is latched and not yet acknowledged        *)
  isr,       (* lines in service                                            *)
  imr,       (* masked lines                                                *)
  offset     (* chip -> vector of its first line                            *)

picVars == <<irr, isr, imr, offset>>

Highest(lines) == {q \in lines : \A p \in lines : q <= p}

---------------------------------------------------------------------------
(* Lines a chip would request for: latched, not masked, and of higher      *)
(* priority than every line of that chip in service.                       *)
SlaveRequests ==
  {q \in (irr \intersect Slave) \ imr : \A r \in isr \intersect Slave : q < r}

MasterRequests ==
  {q \in ((irr \intersect Master)
            \union (IF SlaveRequests # {} THEN {CASCADE} ELSE {})) \ imr :
     \A r \in isr \intersect Master : q < r}

(* The CPU acknowledges the interrupt of line q.                           *)
Acknowledge(q) ==
  /\ \/ q \in Highest(MasterRequests) \ {CASCADE} /\ isr' = isr \union {q}
     \/ /\ CASCADE \in Highest(MasterRequests)
        /\ q \in Highest(SlaveRequests)
        /\ isr' = isr \union {CASCADE, q}
  /\ irr' = irr \ {q}
  /\ UNCHANGED <<imr, offset>>

VectorOf(q) == IF q \in Master THEN offset.master + q ELSE offset.slave + q - 8

(* Line q drops before the CPU acknowledges it: nothing goes into service. *)
Withdraw(q) ==
  /\ q \in Highest(MasterRequests)
  /\ irr' = irr \ {q}
  /\ UNCHANGED <<isr, imr, offset>>

Edge(q) == irr' = irr \union {q} /\ UNCHANGED <<isr, imr, offset>>

---------------------------------------------------------------------------
(* pic_remap.  ICW1 clears masks and service bits and forgets every edge   *)
(* seen so far; the vectors and the saved masks follow.                    *)
StartInitialization ==
  /\ irr' = {} /\ isr' = {} /\ imr' = {}
  /\ UNCHANGED offset

SetVectors(offset1, offset2) ==
  /\ offset' = [master |-> offset1, slave |-> offset2]
  /\ UNCHANGED <<irr, isr, imr>>

RestoreMasks(saved) == imr' = saved /\ UNCHANGED <<irr, isr, offset>>

(* pic_send_eoi: each command ends the chip's highest-priority service.    *)
EndService(chip, lines) == lines \ Highest(lines \intersect chip)

AfterEoi(irq, lines) ==
  EndService(Master, IF irq >= 8 THEN EndService(Slave, lines) ELSE lines)

SendEoi(irq) == isr' = AfterEoi(irq, isr) /\ UNCHANGED <<irr, imr, offset>>

(* irq_clear_mask                                                          *)
ClearMask(q) == imr' = imr \ {q} /\ UNCHANGED <<irr, isr, offset>>

PicTypeOK ==
  /\ irr \subseteq IRQ /\ isr \subseteq IRQ /\ imr \subseteq IRQ
  /\ offset \in [master : 0 .. 248, slave : 0 .. 248]
===========================================================================
