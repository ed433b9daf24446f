----------------------------- MODULE Processes -----------------------------
(***************************************************************************)
(* The process table of proc.c, the contexts proc_context.c builds in      *)
(* pages of the heap, and the interrupt handler's store into the context   *)
(* of the current process.  The kernel creates processes with interrupts   *)
(* enabled, so create_process is cut where an interrupt sees a difference: *)
(* after the slot is found, after the context is built and after the entry *)
(* is in the table.                                                        *)
(***************************************************************************)
EXTENDS VMem, FiniteSets

CONSTANTS
  NR_PROC,    (* entries of proc_table                                      *)
  Starts,     (* first instructions callers pass to create_process          *)
  Args,       (* argument pointers they pass                                *)
  Names,      (* names they pass to name_process                            *)
  None        (* no value: the register, name or return value is not set    *)

Slot == 0 .. NR_PROC - 1

ASSUME ProcAssumption ==
  /\ NR_PROC \in Nat \ {0}
  /\ NR_PROC < PAGE_TABLE_SIZE
  /\ Starts # {} /\ Args # {}
  /\ None \notin Starts \union Args \union Slot

(* proc_current is never assigned: the kernel itself runs as slot 0.       *)
proc_current == 0

ProcState == {"FREE", "RUNNABLE"}

(* What a context page holds: the zeroed page with the entry registers of  *)
(* create_new_proc_context, or the state of interrupted code.              *)
Fresh(start, args) == [rip |-> "_start", rdi |-> start, rsi |-> args]
Interrupted == [rip |-> "interrupted", rdi |-> None, rsi |-> None]
Junk == [rip |-> "junk", rdi |-> None, rsi |-> None]

Registers ==
  [rip : {"_start", "interrupted", "junk"},
   rdi : Starts \union {NULL, None}, rsi : Args \union {NULL, None}]

VARIABLES
  proc_table,    (* slot -> entry                                           *)
  proc_number,   (* how many processes create_process has made              *)
  memory,        (* page of the heap -> the context it holds                *)
  call,          (* the call in progress: its stage and its locals          *)
  returned,      (* the slot the last create_process returned               *)
  status         (* "running"; "halted" by panic; "faulted" by the store of *)
                 (* generic_handler through a NULL context                  *)

procVars == <<proc_table, proc_number, memory, call, returned, status>>
vars == <<response, memory_map, base_of_heap, pages,
          proc_table, proc_number, memory, call, returned, status>>

EmptyEntry == [state |-> "FREE", context |-> NULL, name |-> None]

Idle == [pc |-> "idle", op |-> "process", slot |-> 0, start |-> NULL, args |-> NULL, page |-> NULL]

Init ==
  /\ VMemInit
  /\ proc_table = [s \in Slot |-> EmptyEntry]
  /\ proc_number = 0
  /\ memory = [i \in Page |-> Junk]
  /\ call = Idle
  /\ returned = None
  /\ status = "running"

At(stage) == status = "running" /\ call.pc = stage

---------------------------------------------------------------------------
(* create_process: the checks and the search for a slot.  Slot 0 is the    *)
(* last choice, for when no other slot is free.                            *)
(* Mutant of FirstFreeSlot: the state of the slot is not tested.           *)
FirstFreeSlotUntested(s) ==
  \/ s # 0 /\ \A t \in 1 .. s - 1 : proc_table[t].state # "FREE"
  \/ s = 0 /\ \A t \in 1 .. NR_PROC - 1 : proc_table[t].state # "FREE"

FirstFreeSlot(s) ==
  /\ proc_table[s].state = "FREE"
  /\ \/ s # 0 /\ \A t \in 1 .. s - 1 : proc_table[t].state # "FREE"
     \/ s = 0 /\ \A t \in 1 .. NR_PROC - 1 : proc_table[t].state # "FREE"

FindSlot(start, args) ==
  /\ At("idle")
  /\ proc_number < NR_PROC
  /\ \E s \in Slot :
       /\ FirstFreeSlot(s)
       /\ call' = [pc |-> "build", op |-> "process", slot |-> s,
                   start |-> start, args |-> args, page |-> NULL]
  /\ UNCHANGED <<vmemVars, proc_table, proc_number, memory, returned, status>>

(* Mutant of NoSlot: an off-by-one in the test of proc_number.             *)
NoSlotEarly ==
  /\ At("idle")
  /\ \/ proc_number >= NR_PROC - 1
     \/ \A s \in Slot : proc_table[s].state # "FREE"
  /\ status' = "halted"
  /\ UNCHANGED <<vmemVars, proc_table, proc_number, memory, call, returned>>

(* Both tests that panic with "No more proc slots available".              *)
NoSlot ==
  /\ At("idle")
  /\ \/ proc_number >= NR_PROC
     \/ \A s \in Slot : proc_table[s].state # "FREE"
  /\ status' = "halted"
  /\ UNCHANGED <<vmemVars, proc_table, proc_number, memory, call, returned>>

(* create_new_proc_context: a page of its own, zeroed, then the registers  *)
(* _start expects.                                                         *)
BuildContext ==
  /\ At("build")
  /\ \E i \in Page :
       /\ GetFreePage(i)
       /\ memory' = [memory EXCEPT ![i] = Fresh(call.start, call.args)]
       /\ call' = [call EXCEPT !.pc = "commit", !.page = base_of_heap' + i]
  /\ UNCHANGED <<proc_table, proc_number, returned, status>>

BuildContextPanics ==
  /\ At("build")
  /\ GetFreePagePanics
  /\ status' = "halted"
  /\ UNCHANGED <<proc_table, proc_number, memory, call, returned>>

(* Mutant of Commit: create_proc0 marks its slot runnable as well.         *)
CommitRunnable ==
  /\ At("commit")
  /\ proc_table' =
       [proc_table EXCEPT ![call.slot] =
          [state |-> "RUNNABLE", context |-> call.page, name |-> None]]
  /\ call' = IF call.op = "process" THEN [call EXCEPT !.pc = "count"] ELSE Idle
  /\ UNCHANGED <<vmemVars, proc_number, memory, returned, status>>

(* The assignment of the compound literal: the fields it does not name are *)
(* zeroed, so create_proc0 leaves its slot FREE.                           *)
Commit ==
  /\ At("commit")
  /\ proc_table' =
       [proc_table EXCEPT ![call.slot] =
          [state |-> IF call.op = "process" THEN "RUNNABLE" ELSE "FREE",
           context |-> call.page, name |-> None]]
  /\ call' = IF call.op = "process" THEN [call EXCEPT !.pc = "count"] ELSE Idle
  /\ UNCHANGED <<vmemVars, proc_number, memory, returned, status>>

CountAndReturn ==
  /\ At("count")
  /\ proc_number' = proc_number + 1
  /\ returned' = call.slot
  /\ call' = Idle
  /\ UNCHANGED <<vmemVars, proc_table, memory, status>>

NameProcess(s, name) ==
  /\ At("idle")
  /\ proc_table[s].state # "FREE"
  /\ proc_table' = [proc_table EXCEPT ![s].name = name]
  /\ UNCHANGED <<vmemVars, proc_number, memory, call, returned, status>>

(* create_proc0, which proc.h exports and no code of the kernel calls: it  *)
(* gives the kernel's own slot a context, built like any other.            *)
CreateProc0 ==
  /\ At("idle")
  /\ call' = [pc |-> "build", op |-> "proc0", slot |-> 0,
              start |-> NULL, args |-> NULL, page |-> NULL]
  /\ UNCHANGED <<vmemVars, proc_table, proc_number, memory, returned, status>>

---------------------------------------------------------------------------
(* The first two assignments of generic_handler, at any instruction of the *)
(* code above: the registers of the interrupted code go to the context of  *)
(* slot proc_current.                                                      *)
SaveInterrupted ==
  /\ status = "running"
  /\ proc_table[proc_current].context # NULL
  /\ memory' = [memory EXCEPT ![proc_table[proc_current].context - base_of_heap] = Interrupted]
  /\ UNCHANGED <<vmemVars, proc_table, proc_number, call, returned, status>>

(* The same store with no context there: the page fault and what follows   *)
(* it are the subject of module Interrupts.                                *)
SaveFaults ==
  /\ status = "running"
  /\ proc_table[proc_current].context = NULL
  /\ status' = "faulted"
  /\ UNCHANGED <<vmemVars, proc_table, proc_number, memory, call, returned>>

---------------------------------------------------------------------------
CreateProcess ==
  \/ \E start \in Starts, args \in Args : FindSlot(start, args)
  \/ NoSlot
  \/ BuildContext
  \/ BuildContextPanics
  \/ Commit
  \/ CountAndReturn

Interrupt == SaveInterrupted \/ SaveFaults

(* Callers use create_proc0, if at all, as the first thing they do with    *)
(* the table: a second call would throw away the context of the first, and *)
(* one after slot 0 is taken the process in it.                            *)
BootProc0 ==
  /\ proc_number = 0
  /\ proc_table[0].context = NULL
  /\ CreateProc0

Next ==
  \/ CreateProcess
  \/ \E s \in Slot, name \in Names : NameProcess(s, name)
  \/ BootProc0
  \/ Interrupt

Spec == Init /\ [][Next]_vars
---------------------------------------------------------------------------
TypeOK ==
  /\ VMemTypeOK
  /\ proc_table \in [Slot -> [state : ProcState, context : Nat, name : Names \union {None}]]
  /\ proc_number \in Nat
  /\ memory \in [Page -> Registers]
  /\ call \in [pc : {"idle", "build", "commit", "count"}, op : {"process", "proc0"},
               slot : Slot, start : Starts \union {NULL}, args : Args \union {NULL}, page : Nat]
  /\ returned \in Slot \union {None}
  /\ status \in {"running", "halted", "faulted"}

Live == {s \in Slot : proc_table[s].state # "FREE"}
Owners == {s \in Slot : proc_table[s].context # NULL}

(* No two slots share a context, and the context create_process is about   *)
(* to put in the table belongs to no slot yet: whatever is saved in or     *)
(* started from one context touches one process.                           *)
ContextsExclusive ==
  /\ \A s, t \in Owners : s # t => proc_table[s].context # proc_table[t].context
  /\ call.pc = "commit" => \A s \in Owners : proc_table[s].context # call.page

(* Every context is a page of the heap that is marked used, so the next    *)
(* get_free_page cannot return it; so is the one being built.              *)
ContextsAllocated ==
  /\ \A s \in Owners : proc_table[s].context \in UsedAddresses
  /\ call.pc = "commit" => call.page \in UsedAddresses
  /\ \A s \in Live : s \in Owners

(* proc_number, which create_process tests first, counts the slots in use  *)
(* (one behind between the two statements that fill the slot and count     *)
(* it): the test and the search that follows it never disagree.            *)
CountMatches ==
  Cardinality(Live) = proc_number + (IF call.pc = "count" THEN 1 ELSE 0)

(* The kernel runs out of slots before it runs out of pages: create_process*)
(* panics only with every slot taken, or with no region to put a heap in,  *)
(* and never with "Heap is full!".                                         *)
PanicOnlyWhenFull ==
  status = "halted" => Live = Slot \/ base_of_heap = 0

(* A slot other than the kernel's own keeps the entry it was created with, *)
(* through every later create_process and every interrupt.                 *)
EntryOf(s) ==
  IF proc_table[s].state = "FREE" THEN None
  ELSE LET saved == memory[proc_table[s].context - base_of_heap]
       IN  [start |-> saved.rdi, args |-> saved.rsi]

Pool == INSTANCE ProcessPool WITH
          Slots <- Slot \ {proc_current}, Free <- None,
          entry <- [s \in Slot \ {proc_current} |-> EntryOf(s)]
PoolSpec == Pool!Spec
===========================================================================
