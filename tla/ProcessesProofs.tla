--------------------------- MODULE ProcessesProofs ---------------------------
(***************************************************************************)
(* The safety properties of Processes, for every number of slots, heap     *)
(* size and memory map, from one inductive invariant.                      *)
(***************************************************************************)
EXTENDS Processes, FiniteSetTheorems, TLAPS

(* While a context is being built its slot is still free, and create_proc0 *)
(* is only building one when the kernel's slot has none.                   *)
StageInv ==
  /\ call.pc \in {"build", "commit"} => proc_table[call.slot].state = "FREE"
  /\ call.pc \in {"build", "commit"} /\ call.op = "proc0" =>
       call.slot = 0 /\ proc_table[0].context = NULL
  /\ call.pc = "count" => call.op = "process"
  /\ call.op = "process" /\ call.pc # "idle" => call.start \in Starts /\ call.args \in Args

(* Every used page belongs to a live slot, to the context being built or   *)
(* to the context of the kernel's own slot.                                *)
PagesBound ==
  Cardinality(UsedPages) <=
    Cardinality(Live) + (IF call.pc = "commit" THEN 1 ELSE 0)
                      + (IF proc_table[0].context # NULL THEN 1 ELSE 0)

(* The page being committed still holds what create_new_proc_context wrote *)
(* in it.                                                                  *)
BuiltIsFresh ==
  call.pc = "commit" =>
    memory[call.page - base_of_heap] = Fresh(call.start, call.args)

IInv ==
  /\ TypeOK /\ HeapInv
  /\ StageInv /\ PagesBound /\ BuiltIsFresh
  /\ ContextsExclusive /\ ContextsAllocated
  /\ CountMatches /\ PanicOnlyWhenFull

---------------------------------------------------------------------------
(* What one call of get_free_page does to the allocator.                   *)

(* build_memmap fills memory_map with numbers from the bootloader's map.   *)
LEMMA VMemInitTypeOK == VMemInit => VMemTypeOK /\ HeapInv
<1> SUFFICES ASSUME VMemInit PROVE VMemTypeOK /\ HeapInv
  OBVIOUS
<1>1. response \in Seq(MemMapEntry)
  BY MemMapAssumption DEF VMemInit
<1>2. ASSUME NEW k \in Region
      PROVE  memory_map[k] \in [start : Nat, length : Nat]
  <2> DEFINE P(j) == response[j].usable /\ UsableBefore(response, j) = k
  <2>1. CASE \E i \in DOMAIN response : P(i)
    <3> DEFINE i == CHOOSE j \in DOMAIN response : P(j)
    <3>1. i \in DOMAIN response
      BY <2>1
    <3>2. response[i] \in MemMapEntry
      BY <1>1, <3>1
    <3>3. memory_map[k] = [start |-> response[i].base, length |-> response[i].length]
      BY <2>1 DEF VMemInit, BuildMemmap
    <3> QED
      BY <3>2, <3>3 DEF MemMapEntry
  <2>2. CASE ~ \E i \in DOMAIN response : P(i)
    <3>1. memory_map[k] = [start |-> 0, length |-> 0]
      BY <2>2 DEF VMemInit, BuildMemmap
    <3> QED
      BY <3>1
  <2> QED
    BY <2>1, <2>2
<1>3. memory_map \in [Region -> [start : Nat, length : Nat]]
  <2>1. memory_map = [k \in Region |-> memory_map[k]]
    BY DEF VMemInit, BuildMemmap
  <2> QED
    BY <1>2, <2>1
<1> QED
  BY <1>3 DEF VMemInit, VMemTypeOK, HeapInv, UsedPages

(* The set of used pages is finite and no larger than the heap; it has the *)
(* heap's size only when every page is used.                               *)
LEMMA UsedPagesFinite ==
  /\ IsFiniteSet(UsedPages)
  /\ Cardinality(UsedPages) \in Nat
  /\ (\A i \in Page : pages[i]) => Cardinality(UsedPages) = PAGE_TABLE_SIZE
<1>1. IsFiniteSet(Page) /\ Cardinality(Page) = PAGE_TABLE_SIZE
  BY FS_Interval, SizeAssumption DEF Page
<1>2. UsedPages \subseteq Page
  BY DEF UsedPages
<1>3. IsFiniteSet(UsedPages)
  BY <1>1, <1>2, FS_Subset
<1>4. (\A i \in Page : pages[i]) => UsedPages = Page
  BY DEF UsedPages
<1> QED
  BY <1>1, <1>3, <1>4, FS_CardinalityType

(* LocateHeap leaves the heap where it is, or gives it a nonzero address,  *)
(* or finds no region for it.                                              *)
LEMMA LocateHeapFacts ==
  ASSUME VMemTypeOK, LocateHeap
  PROVE  /\ base_of_heap' \in Nat
         /\ base_of_heap # 0 => base_of_heap' = base_of_heap
BY MemMapAssumption DEF VMemTypeOK, LocateHeap, Region

(* A successful call marks one page that was free and leaves the others.   *)
LEMMA GetFreePageFacts ==
  ASSUME VMemTypeOK, HeapInv, NEW i \in Page, GetFreePage(i)
  PROVE  /\ VMemTypeOK'
         /\ HeapInv'
         /\ base_of_heap' \in Nat \ {0}
         /\ base_of_heap # 0 => base_of_heap' = base_of_heap
         /\ i \notin UsedPages
         /\ UsedPages' = UsedPages \union {i}
         /\ Cardinality(UsedPages)' = Cardinality(UsedPages) + 1
         /\ UsedAddresses' = UsedAddresses \union {base_of_heap' + i}
         /\ base_of_heap' + i \notin UsedAddresses
<1>1. /\ base_of_heap' \in Nat \ {0}
      /\ base_of_heap # 0 => base_of_heap' = base_of_heap
  BY LocateHeapFacts DEF GetFreePage
<1>2. VMemTypeOK' /\ HeapInv'
  BY <1>1 DEF GetFreePage, VMemTypeOK, HeapInv
<1>3. i \notin UsedPages
  BY DEF GetFreePage, FirstFree, UsedPages
<1>4. UsedPages' = UsedPages \union {i}
  BY DEF GetFreePage, UsedPages, VMemTypeOK
<1>5. Cardinality(UsedPages)' = Cardinality(UsedPages) + 1
  BY <1>3, <1>4, UsedPagesFinite, FS_AddElement
<1>6. /\ UsedAddresses' = UsedAddresses \union {base_of_heap' + i}
      /\ base_of_heap' + i \notin UsedAddresses
  <2>1. CASE base_of_heap = 0
    BY <2>1, <1>4 DEF HeapInv, UsedAddresses
  <2>2. CASE base_of_heap # 0
    <3>1. base_of_heap' = base_of_heap /\ base_of_heap \in Nat
      BY <2>2, <1>1 DEF VMemTypeOK
    <3>2. \A j \in UsedPages : base_of_heap + j # base_of_heap' + i
      BY <3>1, <1>3 DEF UsedPages, Page
    <3> QED
      BY <3>1, <3>2, <1>4 DEF UsedAddresses
  <2> QED
    BY <2>1, <2>2
<1> QED
  BY <1>1, <1>2, <1>3, <1>4, <1>5, <1>6

(* A call that panics leaves the bitmap alone.                             *)
LEMMA GetFreePagePanicsFacts ==
  ASSUME VMemTypeOK, HeapInv, GetFreePagePanics
  PROVE  /\ VMemTypeOK'
         /\ HeapInv'
         /\ UsedPages' = UsedPages
         /\ UsedAddresses' = UsedAddresses
         /\ base_of_heap # 0 => base_of_heap' = base_of_heap
         /\ base_of_heap' = 0 \/ Cardinality(UsedPages) = PAGE_TABLE_SIZE
<1>1. /\ base_of_heap' \in Nat
      /\ base_of_heap # 0 => base_of_heap' = base_of_heap
  BY LocateHeapFacts DEF GetFreePagePanics
<1>2. UsedPages' = UsedPages
  BY DEF GetFreePagePanics, UsedPages
<1>3. VMemTypeOK' /\ HeapInv'
  BY <1>1, <1>2 DEF GetFreePagePanics, VMemTypeOK, HeapInv
<1>4. UsedAddresses' = UsedAddresses
  <2>1. CASE base_of_heap = 0
    BY <2>1, <1>2 DEF HeapInv, UsedAddresses
  <2>2. CASE base_of_heap # 0
    BY <2>2, <1>1, <1>2 DEF UsedAddresses
  <2> QED
    BY <2>1, <2>2
<1>5. base_of_heap' = 0 \/ Cardinality(UsedPages) = PAGE_TABLE_SIZE
  BY UsedPagesFinite DEF GetFreePagePanics
<1> QED
  BY <1>1, <1>2, <1>3, <1>4, <1>5

---------------------------------------------------------------------------
(* The live slots are finitely many, fewer than NR_PROC when one is free,  *)
(* and all of them when there are NR_PROC.                                 *)
LEMMA LiveFinite ==
  /\ IsFiniteSet(Live)
  /\ Cardinality(Live) \in Nat
  /\ Cardinality(Live) >= NR_PROC => Live = Slot
  /\ \A s \in Slot : proc_table[s].state = "FREE" => Cardinality(Live) < NR_PROC
<1>1. IsFiniteSet(Slot) /\ Cardinality(Slot) = NR_PROC
  BY FS_Interval, ProcAssumption DEF Slot
<1>2. Live \in SUBSET Slot
  BY DEF Live
<1>3. /\ IsFiniteSet(Live)
      /\ Cardinality(Live) <= NR_PROC
      /\ Cardinality(Live) = NR_PROC => Live = Slot
  BY <1>1, <1>2, FS_Subset
<1>4. Cardinality(Live) \in Nat
  BY <1>3, FS_CardinalityType
<1>5. ASSUME NEW s \in Slot, proc_table[s].state = "FREE" PROVE Live # Slot
  BY <1>5 DEF Live
<1> QED
  BY <1>1, <1>3, <1>4, <1>5, ProcAssumption

(* A step that leaves the table and the heap alone leaves alone everything *)
(* that is said of them.                                                   *)
LEMMA SameTable ==
  ASSUME IInv, UNCHANGED <<vmemVars, proc_table>>
  PROVE  /\ VMemTypeOK' /\ HeapInv'
         /\ UsedPages' = UsedPages /\ UsedAddresses' = UsedAddresses
         /\ Live' = Live /\ Owners' = Owners
BY DEF IInv, TypeOK, VMemTypeOK, vmemVars, HeapInv, UsedPages, UsedAddresses, Live, Owners

(* The kernel begins with an empty table and an empty heap.                *)
LEMMA InitIInv == Init => IInv
<1> SUFFICES ASSUME Init PROVE IInv
  OBVIOUS
<1>1. VMemTypeOK /\ HeapInv
  BY VMemInitTypeOK DEF Init
<1>2. TypeOK
  BY <1>1, ProcAssumption
  DEF Init, TypeOK, EmptyEntry, ProcState, Idle, Slot, NULL, Registers, Junk
<1>3. UsedPages = {} /\ Live = {} /\ Owners = {}
  BY DEF Init, VMemInit, UsedPages, Live, Owners, EmptyEntry, NULL
<1>4. Cardinality(UsedPages) = 0 /\ Cardinality(Live) = 0
  BY <1>3, FS_EmptySet
<1>5. StageInv /\ BuiltIsFresh
  BY DEF Init, StageInv, BuiltIsFresh, Idle
<1>6. PagesBound
  BY <1>4 DEF Init, PagesBound, Idle, EmptyEntry, ProcAssumption
<1>7. ContextsExclusive /\ ContextsAllocated
  BY <1>3 DEF Init, Idle, ContextsExclusive, ContextsAllocated
<1>8. CountMatches /\ PanicOnlyWhenFull
  BY <1>4 DEF Init, Idle, CountMatches, PanicOnlyWhenFull
<1> QED
  BY <1>1, <1>2, <1>5, <1>6, <1>7, <1>8 DEF IInv

---------------------------------------------------------------------------
(* Finding a slot, starting create_proc0 and panicking for want of a slot. *)
LEMMA FindSlotIInv ==
  ASSUME IInv, NEW start \in Starts, NEW args \in Args, FindSlot(start, args)
  PROVE  IInv'
<1> USE DEF FindSlot, At
<1>1. UNCHANGED <<vmemVars, proc_table>>
  OBVIOUS
<1>2. TypeOK'
  BY SameTable, <1>1 DEF IInv, TypeOK, NULL
<1>3. StageInv' /\ BuiltIsFresh'
  BY DEF IInv, StageInv, BuiltIsFresh, FirstFreeSlot
<1>4. PagesBound' /\ CountMatches'
  BY SameTable, <1>1 DEF IInv, PagesBound, CountMatches
<1>5. ContextsExclusive' /\ ContextsAllocated' /\ PanicOnlyWhenFull'
  BY SameTable, <1>1 DEF IInv, ContextsExclusive, ContextsAllocated, PanicOnlyWhenFull
<1> QED
  BY SameTable, <1>1, <1>2, <1>3, <1>4, <1>5 DEF IInv

(* The kernel takes a context of its own.                                  *)
LEMMA BootProc0IInv == ASSUME IInv, BootProc0 PROVE IInv'
<1> USE DEF BootProc0, CreateProc0, At
<1>1. UNCHANGED <<vmemVars, proc_table>>
  OBVIOUS
<1>2. TypeOK'
  BY SameTable, <1>1, ProcAssumption DEF IInv, TypeOK, NULL, Slot
<1>3. proc_table[0].state = "FREE"
  BY ProcAssumption DEF IInv, TypeOK, ContextsAllocated, Owners, Live, Slot
<1>4. StageInv' /\ BuiltIsFresh'
  BY <1>3 DEF IInv, StageInv, BuiltIsFresh
<1>5. PagesBound' /\ CountMatches'
  BY SameTable, <1>1 DEF IInv, PagesBound, CountMatches
<1>6. ContextsExclusive' /\ ContextsAllocated' /\ PanicOnlyWhenFull'
  BY SameTable, <1>1 DEF IInv, ContextsExclusive, ContextsAllocated, PanicOnlyWhenFull
<1> QED
  BY SameTable, <1>1, <1>2, <1>4, <1>5, <1>6 DEF IInv

(* A call that finds no slot leaves the table alone.                       *)
LEMMA NoSlotIInv == ASSUME IInv, NoSlot PROVE IInv'
<1> USE DEF NoSlot, At
<1>1. UNCHANGED <<vmemVars, proc_table>>
  OBVIOUS
<1>2. TypeOK' /\ StageInv' /\ BuiltIsFresh'
  BY SameTable, <1>1 DEF IInv, TypeOK, StageInv, BuiltIsFresh
<1>3. PagesBound' /\ CountMatches' /\ ContextsExclusive' /\ ContextsAllocated'
  BY SameTable, <1>1 DEF IInv, PagesBound, CountMatches, ContextsExclusive, ContextsAllocated
<1>4. Live = Slot
  <2>1. CASE proc_number >= NR_PROC
    BY <2>1, LiveFinite, ProcAssumption DEF IInv, TypeOK, CountMatches
  <2>2. CASE \A s \in Slot : proc_table[s].state # "FREE"
    BY <2>2 DEF Live
  <2> QED
    BY <2>1, <2>2
<1>5. PanicOnlyWhenFull'
  BY <1>4, SameTable, <1>1 DEF PanicOnlyWhenFull
<1> QED
  BY SameTable, <1>1, <1>2, <1>3, <1>5 DEF IInv

---------------------------------------------------------------------------
(* get_free_page on behalf of create_new_proc_context: the page is no      *)
(* other context's.                                                        *)
LEMMA BuildContextIInv == ASSUME IInv, BuildContext PROVE IInv'
<1>1. PICK i \in Page :
        /\ GetFreePage(i)
        /\ memory' = [memory EXCEPT ![i] = Fresh(call.start, call.args)]
        /\ call' = [call EXCEPT !.pc = "commit", !.page = base_of_heap' + i]
  BY DEF BuildContext
<1>2. /\ At("build")
      /\ UNCHANGED <<proc_table, proc_number, returned, status>>
      /\ Live' = Live /\ Owners' = Owners
  BY DEF BuildContext, Live, Owners
<1>3. TypeOK /\ VMemTypeOK /\ HeapInv
  BY DEF IInv, TypeOK
<1>4. /\ VMemTypeOK' /\ HeapInv'
      /\ base_of_heap' \in Nat \ {0}
      /\ Cardinality(UsedPages)' = Cardinality(UsedPages) + 1
      /\ UsedAddresses' = UsedAddresses \union {base_of_heap' + i}
      /\ base_of_heap' + i \notin UsedAddresses
  BY <1>1, <1>3, GetFreePageFacts
<1>5. Fresh(call.start, call.args) \in Registers
  BY <1>3 DEF TypeOK, Fresh, Registers
<1>6. base_of_heap' + i \in Nat /\ (base_of_heap' + i) - base_of_heap' = i
  <2> DEFINE heap == base_of_heap'
  <2>1. heap \in Nat
    BY <1>4
  <2> HIDE DEF heap
  <2>2. heap + i \in Nat /\ (heap + i) - heap = i
    BY <2>1, SizeAssumption DEF Page
  <2> QED
    BY <2>2 DEF heap
<1>7. /\ call'.pc = "commit" /\ call'.page = base_of_heap' + i
      /\ call'.op = call.op /\ call'.slot = call.slot
      /\ call'.start = call.start /\ call'.args = call.args
  BY <1>1, <1>3 DEF TypeOK
<1>8. TypeOK'
  BY <1>1, <1>2, <1>3, <1>4, <1>5, <1>6, <1>7 DEF TypeOK
<1>9. StageInv'
  BY <1>2, <1>7 DEF IInv, StageInv, At
<1>10. BuiltIsFresh'
  <2>1. memory \in [Page -> Registers] /\ memory'[i] = Fresh(call.start, call.args)
    BY <1>1, <1>3 DEF TypeOK
  <2>2. call'.page - base_of_heap' = i
    BY <1>6, <1>7
  <2> QED
    BY <1>7, <2>1, <2>2 DEF BuiltIsFresh, Fresh
<1>11. PagesBound'
  BY <1>2, <1>4, <1>7, UsedPagesFinite, LiveFinite DEF IInv, PagesBound, At
<1>12. ContextsExclusive'
  BY <1>2, <1>4, <1>7 DEF IInv, ContextsExclusive, ContextsAllocated
<1>13. ContextsAllocated'
  BY <1>2, <1>4, <1>7 DEF IInv, ContextsAllocated
<1>14. CountMatches' /\ PanicOnlyWhenFull'
  BY <1>2, <1>7 DEF IInv, CountMatches, PanicOnlyWhenFull, At
<1> QED
  BY <1>4, <1>8, <1>9, <1>10, <1>11, <1>12, <1>13, <1>14 DEF IInv

(* get_free_page cannot find the heap full here: the slot being filled is  *)
(* free, so at most NR_PROC pages are in use.                              *)
LEMMA BuildContextPanicsIInv == ASSUME IInv, BuildContextPanics PROVE IInv'
<1>1. /\ At("build") /\ GetFreePagePanics /\ status' = "halted"
      /\ UNCHANGED <<proc_table, proc_number, memory, call, returned>>
      /\ Live' = Live /\ Owners' = Owners
  BY DEF BuildContextPanics, Live, Owners
<1>2. TypeOK /\ VMemTypeOK /\ HeapInv
  BY DEF IInv, TypeOK
<1>3. /\ VMemTypeOK' /\ HeapInv'
      /\ UsedPages' = UsedPages /\ UsedAddresses' = UsedAddresses
      /\ base_of_heap' = 0 \/ Cardinality(UsedPages) = PAGE_TABLE_SIZE
  BY <1>1, <1>2, GetFreePagePanicsFacts
<1>4. TypeOK'
  BY <1>1, <1>2, <1>3 DEF TypeOK
<1>5. StageInv' /\ BuiltIsFresh'
  BY <1>1 DEF IInv, StageInv, BuiltIsFresh, At
<1>6. PagesBound' /\ ContextsExclusive' /\ ContextsAllocated' /\ CountMatches'
  BY <1>1, <1>3
  DEF IInv, PagesBound, ContextsExclusive, ContextsAllocated, CountMatches
<1>7. PanicOnlyWhenFull'
  <2>1. call.slot \in Slot /\ proc_table[call.slot].state = "FREE" /\ call.pc = "build"
    BY <1>1, <1>2 DEF IInv, StageInv, At, TypeOK
  <2>2. Cardinality(Live) < NR_PROC /\ Cardinality(Live) \in Nat
    BY <2>1, LiveFinite
  <2>3. Cardinality(UsedPages) <= NR_PROC
    BY <2>1, <2>2, UsedPagesFinite, ProcAssumption DEF IInv, PagesBound
  <2>4. base_of_heap' = 0
    BY <1>3, <2>3, ProcAssumption, SizeAssumption
  <2> QED
    BY <2>4 DEF PanicOnlyWhenFull
<1> QED
  BY <1>3, <1>4, <1>5, <1>6, <1>7 DEF IInv

---------------------------------------------------------------------------
(* Filling the slot: it was free, and its context was no other slot's.     *)
LEMMA CommitIInv == ASSUME IInv, Commit PROVE IInv'
<1> DEFINE s == call.slot
           new == [state |-> IF call.op = "process" THEN "RUNNABLE" ELSE "FREE",
                   context |-> call.page, name |-> None]
<1>1. /\ status = "running" /\ call.pc = "commit"
      /\ proc_table' = [proc_table EXCEPT ![s] = new]
      /\ call' = IF call.op = "process" THEN [call EXCEPT !.pc = "count"] ELSE Idle
      /\ UNCHANGED <<vmemVars, proc_number, memory, returned, status>>
  BY DEF Commit, At
<1>2. /\ TypeOK /\ VMemTypeOK /\ s \in Slot /\ call.page \in Nat
      /\ call.op \in {"process", "proc0"}
  BY DEF IInv, TypeOK
<1>3. /\ VMemTypeOK' /\ HeapInv'
      /\ UsedPages' = UsedPages /\ UsedAddresses' = UsedAddresses
  BY <1>1 DEF IInv, TypeOK, VMemTypeOK, vmemVars, HeapInv, UsedPages, UsedAddresses
<1>4. /\ proc_table[s].state = "FREE"
      /\ call.op = "proc0" => s = 0 /\ proc_table[0].context = NULL
      /\ call.op = "process" => call.start \in Starts /\ call.args \in Args
  BY <1>1 DEF IInv, StageInv
<1>5. /\ proc_table'[s] = new
      /\ \A t \in Slot \ {s} : proc_table'[t] = proc_table[t]
  BY <1>1, <1>2 DEF TypeOK
<1>6. call.page \in UsedAddresses /\ call.page # NULL
  <2>1. call.page \in UsedAddresses
    BY <1>1 DEF IInv, ContextsAllocated
  <2>2. base_of_heap \in Nat \ {0}
    BY <2>1, <1>2 DEF IInv, HeapInv, UsedAddresses, VMemTypeOK
  <2> QED
    BY <2>1, <2>2 DEF UsedAddresses, UsedPages, Page, NULL
<1>7. Owners' = Owners \union {s}
  BY <1>2, <1>5, <1>6 DEF Owners
<1>8. Live' = IF call.op = "process" THEN Live \union {s} ELSE Live
  BY <1>2, <1>4, <1>5 DEF Live
<1>9. s \notin Live
  BY <1>4 DEF Live
<1>10. Cardinality(Live') = Cardinality(Live) + (IF call.op = "process" THEN 1 ELSE 0)
  BY <1>8, <1>9, LiveFinite, FS_AddElement
<1>11. /\ call.op = "process" => /\ call'.pc = "count" /\ call'.op = "process"
                                 /\ call'.start = call.start /\ call'.args = call.args
       /\ call.op = "proc0" => call'.pc = "idle"
  BY <1>1, <1>2 DEF Idle, TypeOK
<1>12. TypeOK'
  <2>1. new \in [state : ProcState, context : Nat, name : Names \union {None}]
    BY <1>2 DEF ProcState
  <2>2. call' \in [pc : {"idle", "build", "commit", "count"}, op : {"process", "proc0"},
                   slot : Slot, start : Starts \union {NULL}, args : Args \union {NULL},
                   page : Nat]
    BY <1>1, <1>2, ProcAssumption DEF TypeOK, Idle, Slot, NULL
  <2> QED
    BY <1>1, <1>2, <1>3, <2>1, <2>2 DEF TypeOK
<1>13. StageInv' /\ BuiltIsFresh'
  BY <1>2, <1>4, <1>11 DEF StageInv, BuiltIsFresh
<1>14. PagesBound'
  <2>1. proc_table[0].context # NULL => proc_table'[0].context # NULL
    BY <1>2, <1>5, <1>6, ProcAssumption DEF Slot
  <2>2. call.op = "proc0" => proc_table[0].context = NULL /\ proc_table'[0].context # NULL
    BY <1>4, <1>5, <1>6
  <2>3. Cardinality(UsedPages) <= Cardinality(Live) + 1
           + (IF proc_table[0].context # NULL THEN 1 ELSE 0)
    BY <1>1 DEF IInv, PagesBound
  <2>4. call'.pc # "commit"
    BY <1>2, <1>11
  <2>5. CASE call.op = "process"
    BY <1>3, <1>10, <2>1, <2>3, <2>4, <2>5, LiveFinite, UsedPagesFinite DEF PagesBound
  <2>6. CASE call.op = "proc0"
    BY <1>3, <1>10, <2>2, <2>3, <2>4, <2>6, LiveFinite, UsedPagesFinite DEF PagesBound
  <2> QED
    BY <1>2, <2>5, <2>6
<1>15. ContextsExclusive'
  <2>1. \A t \in Owners \ {s} : proc_table'[t].context = proc_table[t].context
    BY <1>5 DEF Owners
  <2>2. \A t \in Owners : proc_table[t].context # call.page
    BY <1>1 DEF IInv, ContextsExclusive
  <2>3. call'.pc # "commit"
    BY <1>2, <1>11
  <2> QED
    BY <1>5, <1>7, <2>1, <2>2, <2>3 DEF IInv, ContextsExclusive
<1>16. ContextsAllocated'
  <2>1. \A t \in Owners' : proc_table'[t].context \in UsedAddresses
    BY <1>5, <1>6, <1>7 DEF IInv, ContextsAllocated, Owners
  <2>2. \A t \in Live' : t \in Owners'
    BY <1>7, <1>8 DEF IInv, ContextsAllocated
  <2> QED
    BY <1>2, <1>3, <1>11, <2>1, <2>2 DEF ContextsAllocated
<1>17. CountMatches'
  <2>1. Cardinality(Live) = proc_number
    BY <1>1, <1>2 DEF IInv, CountMatches, TypeOK
  <2> QED
    BY <1>1, <1>2, <1>10, <1>11, <2>1 DEF CountMatches, TypeOK
<1>18. PanicOnlyWhenFull'
  BY <1>1 DEF PanicOnlyWhenFull
<1> QED
  BY <1>3, <1>12, <1>13, <1>14, <1>15, <1>16, <1>17, <1>18 DEF IInv

(* The count follows the slot.                                             *)
LEMMA CountAndReturnIInv == ASSUME IInv, CountAndReturn PROVE IInv'
<1> USE DEF CountAndReturn, At
<1>1. UNCHANGED <<vmemVars, proc_table>>
  OBVIOUS
<1>2. TypeOK'
  BY SameTable, <1>1, ProcAssumption DEF IInv, TypeOK, Idle, Slot, NULL
<1>3. StageInv' /\ BuiltIsFresh'
  BY DEF StageInv, BuiltIsFresh, Idle
<1>4. PagesBound' /\ CountMatches'
  BY SameTable, <1>1, LiveFinite DEF IInv, TypeOK, PagesBound, CountMatches, Idle
<1>5. ContextsExclusive' /\ ContextsAllocated' /\ PanicOnlyWhenFull'
  BY SameTable, <1>1
  DEF IInv, ContextsExclusive, ContextsAllocated, PanicOnlyWhenFull, Idle
<1> QED
  BY SameTable, <1>1, <1>2, <1>3, <1>4, <1>5 DEF IInv

---------------------------------------------------------------------------
(* A name touches neither the state nor the context of its slot.           *)
LEMMA NameProcessIInv ==
  ASSUME IInv, NEW s \in Slot, NEW name \in Names, NameProcess(s, name)
  PROVE  IInv'
<1>1. /\ At("idle") /\ proc_table' = [proc_table EXCEPT ![s].name = name]
      /\ UNCHANGED <<vmemVars, proc_number, memory, call, returned, status>>
  BY DEF NameProcess
<1>2. TypeOK
  BY DEF IInv
<1>3. /\ proc_table' \in [Slot -> [state : ProcState, context : Nat, name : Names \union {None}]]
      /\ \A t \in Slot : /\ proc_table'[t].state = proc_table[t].state
                         /\ proc_table'[t].context = proc_table[t].context
  BY <1>1, <1>2 DEF TypeOK
<1>4. /\ VMemTypeOK' /\ HeapInv'
      /\ UsedPages' = UsedPages /\ UsedAddresses' = UsedAddresses
  BY <1>1, <1>2 DEF IInv, TypeOK, VMemTypeOK, vmemVars, HeapInv, UsedPages, UsedAddresses
<1>5. Live' = Live /\ Owners' = Owners
  BY <1>3 DEF Live, Owners
<1>6. TypeOK'
  BY <1>1, <1>2, <1>3, <1>4 DEF TypeOK
<1>7. StageInv' /\ BuiltIsFresh' /\ PanicOnlyWhenFull'
  BY <1>1 DEF StageInv, BuiltIsFresh, PanicOnlyWhenFull, At
<1>8. 0 \in Slot
  BY ProcAssumption DEF Slot
<1>9. PagesBound' /\ CountMatches'
  BY <1>1, <1>3, <1>4, <1>5, <1>8 DEF IInv, PagesBound, CountMatches
<1>10. ContextsExclusive' /\ ContextsAllocated'
  BY <1>1, <1>3, <1>4, <1>5 DEF IInv, ContextsExclusive, ContextsAllocated, Owners
<1> QED
  BY <1>4, <1>6, <1>7, <1>9, <1>10 DEF IInv

(* An interrupt saves into the context of the kernel's slot, which is not  *)
(* the page create_process is about to commit.                             *)
LEMMA SaveInterruptedIInv == ASSUME IInv, SaveInterrupted PROVE IInv'
<1> DEFINE saved == proc_table[0].context - base_of_heap
<1>1. /\ status = "running" /\ proc_table[0].context # NULL
      /\ memory' = [memory EXCEPT ![saved] = Interrupted]
      /\ UNCHANGED <<vmemVars, proc_table, proc_number, call, returned, status>>
  BY DEF SaveInterrupted, proc_current
<1>2. UNCHANGED <<vmemVars, proc_table>>
  BY <1>1
<1>3. TypeOK /\ 0 \in Slot
  BY ProcAssumption DEF IInv, Slot
<1>4. Interrupted \in Registers
  BY DEF Interrupted, Registers
<1>5. TypeOK'
  BY <1>1, <1>2, <1>3, <1>4, SameTable DEF TypeOK
<1>6. StageInv' /\ PagesBound' /\ ContextsExclusive' /\ ContextsAllocated' /\ CountMatches'
      /\ PanicOnlyWhenFull'
  BY <1>1, <1>2, SameTable
  DEF IInv, StageInv, PagesBound, ContextsExclusive, ContextsAllocated, CountMatches,
      PanicOnlyWhenFull
<1>7. BuiltIsFresh'
  <2>1. SUFFICES ASSUME call.pc = "commit"
                 PROVE  memory'[call.page - base_of_heap] = memory[call.page - base_of_heap]
    BY <1>1, <2>1 DEF IInv, BuiltIsFresh, vmemVars
  <2>2. proc_table[0].context # call.page
    BY <1>1, <1>3, <2>1 DEF IInv, ContextsExclusive, Owners
  <2>3. call.page - base_of_heap # saved
    <3> DEFINE context == proc_table[0].context
               page == call.page
    <3>1. context \in Nat /\ page \in Nat /\ base_of_heap \in Nat /\ context # page
      BY <2>2, <1>3 DEF TypeOK, VMemTypeOK
    <3> HIDE DEF context, page
    <3>2. page - base_of_heap # context - base_of_heap
      BY <3>1
    <3> QED
      BY <3>2 DEF context, page
  <2>4. call.page - base_of_heap \in Page
    <3>1. call.page \in UsedAddresses
      BY <2>1 DEF IInv, ContextsAllocated
    <3>2. PICK i \in UsedPages : call.page = base_of_heap + i
      BY <3>1 DEF UsedAddresses
    <3>3. call.page - base_of_heap = i
      BY <3>2, <1>3, SizeAssumption DEF TypeOK, VMemTypeOK, UsedPages, Page
    <3> QED
      BY <3>3 DEF UsedPages
  <2> QED
    BY <1>1, <1>3, <2>3, <2>4 DEF TypeOK
<1> QED
  BY <1>2, SameTable, <1>5, <1>6, <1>7 DEF IInv

(* The store of an interrupt without a context faults.                     *)
LEMMA SaveFaultsIInv == ASSUME IInv, SaveFaults PROVE IInv'
<1> USE DEF SaveFaults
<1>1. UNCHANGED <<vmemVars, proc_table>>
  OBVIOUS
<1> QED
  BY SameTable, <1>1
  DEF IInv, TypeOK, StageInv, BuiltIsFresh, PagesBound, ContextsExclusive,
      ContextsAllocated, CountMatches, PanicOnlyWhenFull, vmemVars

---------------------------------------------------------------------------
(* Each action in turn.                                                    *)
LEMMA StepIInv == IInv /\ [Next]_vars => IInv'
<1> SUFFICES ASSUME IInv, [Next]_vars PROVE IInv'
  OBVIOUS
<1>1. ASSUME NEW start \in Starts, NEW args \in Args, FindSlot(start, args) PROVE IInv'
  BY <1>1, FindSlotIInv
<1>2. CASE NoSlot
  BY <1>2, NoSlotIInv
<1>3. CASE BuildContext
  BY <1>3, BuildContextIInv
<1>4. CASE BuildContextPanics
  BY <1>4, BuildContextPanicsIInv
<1>5. CASE Commit
  BY <1>5, CommitIInv
<1>6. CASE CountAndReturn
  BY <1>6, CountAndReturnIInv
<1>7. ASSUME NEW s \in Slot, NEW name \in Names, NameProcess(s, name) PROVE IInv'
  BY <1>7, NameProcessIInv
<1>8. CASE BootProc0
  BY <1>8, BootProc0IInv
<1>9. CASE SaveInterrupted
  BY <1>9, SaveInterruptedIInv
<1>10. CASE SaveFaults
  BY <1>10, SaveFaultsIInv
<1>11. CASE UNCHANGED vars
  <2>1. UNCHANGED <<vmemVars, proc_table>>
    BY <1>11 DEF vars, vmemVars
  <2> QED
    BY <1>11, <2>1, SameTable
    DEF vars, IInv, TypeOK, StageInv, BuiltIsFresh, PagesBound, ContextsExclusive,
        ContextsAllocated, CountMatches, PanicOnlyWhenFull
<1> QED
  BY <1>1, <1>2, <1>3, <1>4, <1>5, <1>6, <1>7, <1>8, <1>9, <1>10, <1>11
  DEF Next, CreateProcess, Interrupt

(* The inductive invariant holds in every state.                           *)
THEOREM InvariantHolds == Spec => []IInv
BY InitIInv, StepIInv, PTL DEF Spec

(* Every variable of the process table and the allocator keeps its type.   *)
THEOREM TypeCorrect == Spec => []TypeOK
<1>1. IInv => TypeOK
  BY DEF IInv
<1> QED
  BY <1>1, InvariantHolds, PTL

(* No two processes ever share a context, for any number of slots, even    *)
(* with an interrupt after every step of create_process.                   *)
THEOREM ContextsAreExclusive == Spec => []ContextsExclusive
<1>1. IInv => ContextsExclusive
  BY DEF IInv
<1> QED
  BY <1>1, InvariantHolds, PTL

(* The allocator never has a context's page up for allocation.             *)
THEOREM ContextsAreAllocated == Spec => []ContextsAllocated
<1>1. IInv => ContextsAllocated
  BY DEF IInv
<1> QED
  BY <1>1, InvariantHolds, PTL

(* proc_number counts the slots in use.                                    *)
THEOREM CountIsExact == Spec => []CountMatches
<1>1. IInv => CountMatches
  BY DEF IInv
<1> QED
  BY <1>1, InvariantHolds, PTL

(* create_process panics with every slot taken or without a region for the *)
(* heap, and never because pages have run out before slots.                *)
THEOREM PanicsOnlyWhenFull == Spec => []PanicOnlyWhenFull
<1>1. IInv => PanicOnlyWhenFull
  BY DEF IInv
<1> QED
  BY <1>1, InvariantHolds, PTL

---------------------------------------------------------------------------
(* Refinement of ProcessPool.                                              *)

Visible == Slot \ {proc_current}

(* A slot's entry changes only with its state, its context or the page the *)
(* context is in.                                                          *)
LEMMA EntryKept ==
  ASSUME NEW s \in Slot,
         proc_table'[s].state = proc_table[s].state,
         proc_table[s].state # "FREE" =>
           memory'[proc_table'[s].context - base_of_heap'] =
             memory[proc_table[s].context - base_of_heap]
  PROVE  EntryOf(s)' = EntryOf(s)
BY DEF EntryOf

(* The context of a live slot is a page of the heap, and the heap has its  *)
(* address for good.                                                       *)
LEMMA LiveContext ==
  ASSUME IInv, NEW s \in Slot, proc_table[s].state # "FREE"
  PROVE  /\ base_of_heap \in Nat \ {0}
         /\ s \in Owners
         /\ \E i \in UsedPages : /\ proc_table[s].context = base_of_heap + i
                                 /\ proc_table[s].context - base_of_heap = i
<1>1. s \in Owners /\ proc_table[s].context \in UsedAddresses
  BY DEF IInv, ContextsAllocated, Live
<1>2. PICK i \in UsedPages : proc_table[s].context = base_of_heap + i
  BY <1>1 DEF UsedAddresses
<1>3. base_of_heap \in Nat \ {0}
  BY <1>2 DEF IInv, TypeOK, VMemTypeOK, HeapInv
<1>4. (base_of_heap + i) - base_of_heap = i
  BY <1>3, SizeAssumption DEF UsedPages, Page
<1> QED
  BY <1>1, <1>2, <1>3, <1>4

(* Entries that stay the same one by one stay the same together.           *)
LEMMA SameEntries ==
  ASSUME \A s \in Visible : EntryOf(s)' = EntryOf(s)
  PROVE  UNCHANGED [s \in Visible |-> EntryOf(s)]
OBVIOUS

(* A context is built where no process has one.                            *)
LEMMA BuildContextEntries ==
  ASSUME IInv, BuildContext, NEW s \in Slot PROVE EntryOf(s)' = EntryOf(s)
<1>1. PICK i \in Page :
        GetFreePage(i) /\ memory' = [memory EXCEPT ![i] = Fresh(call.start, call.args)]
  BY DEF BuildContext
<1>2. UNCHANGED proc_table
  BY DEF BuildContext
<1>3. /\ base_of_heap # 0 => base_of_heap' = base_of_heap
      /\ i \notin UsedPages
  BY <1>1, GetFreePageFacts DEF IInv, TypeOK
<1>4. ASSUME proc_table[s].state # "FREE"
      PROVE  memory'[proc_table[s].context - base_of_heap] =
               memory[proc_table[s].context - base_of_heap]
  BY <1>1, <1>3, <1>4, LiveContext DEF IInv, TypeOK, UsedPages
<1> QED
  BY <1>2, <1>3, <1>4, LiveContext, EntryKept

(* A panic changes no process.                                             *)
LEMMA BuildContextPanicsEntries ==
  ASSUME IInv, BuildContextPanics, NEW s \in Slot PROVE EntryOf(s)' = EntryOf(s)
<1>1. UNCHANGED <<proc_table, memory>>
  BY DEF BuildContextPanics
<1>2. base_of_heap # 0 => base_of_heap' = base_of_heap
  BY GetFreePagePanicsFacts DEF IInv, TypeOK, BuildContextPanics
<1> QED
  BY <1>1, <1>2, LiveContext, EntryKept

(* An interrupt writes to the context of slot 0, which is not promised.    *)
LEMMA SaveInterruptedEntries ==
  ASSUME IInv, SaveInterrupted, NEW s \in Visible PROVE EntryOf(s)' = EntryOf(s)
<1>1. /\ UNCHANGED <<vmemVars, proc_table>>
      /\ memory' = [memory EXCEPT ![proc_table[0].context - base_of_heap] = Interrupted]
      /\ proc_table[0].context # NULL
  BY DEF SaveInterrupted, proc_current
<1>2. s \in Slot /\ s # 0 /\ 0 \in Slot
  BY ProcAssumption DEF Visible, Slot, proc_current
<1>3. ASSUME proc_table[s].state # "FREE"
      PROVE  memory'[proc_table[s].context - base_of_heap] =
               memory[proc_table[s].context - base_of_heap]
  <2>1. proc_table[s].context # proc_table[0].context
    BY <1>1, <1>2, <1>3, LiveContext DEF IInv, ContextsExclusive, Owners
  <2> DEFINE mine == proc_table[s].context
             kernels == proc_table[0].context
  <2>2. mine \in Nat /\ kernels \in Nat /\ base_of_heap \in Nat /\ mine # kernels
    BY <2>1, <1>2 DEF IInv, TypeOK, VMemTypeOK
  <2> HIDE DEF mine, kernels
  <2>3. mine - base_of_heap # kernels - base_of_heap
    BY <2>2
  <2>4. mine - base_of_heap \in Page
    BY <1>2, <1>3, LiveContext DEF mine, UsedPages
  <2> QED
    BY <1>1, <2>3, <2>4 DEF mine, kernels, IInv, TypeOK
<1> QED
  BY <1>1, <1>2, <1>3, EntryKept DEF vmemVars

(* A name is not an entry register.                                        *)
LEMMA NameProcessEntries ==
  ASSUME IInv, NEW t \in Slot, NEW name \in Names, NameProcess(t, name), NEW s \in Slot
  PROVE  EntryOf(s)' = EntryOf(s)
<1>1. UNCHANGED <<base_of_heap, memory>>
  BY DEF NameProcess, vmemVars
<1>2. /\ proc_table'[s].state = proc_table[s].state
      /\ proc_table'[s].context = proc_table[s].context
  BY DEF NameProcess, IInv, TypeOK
<1> QED
  BY <1>1, <1>2, EntryKept

(* Committing a process gives its slot the entry it was created with; the  *)
(* kernel's own slot is not visible, and create_proc0 leaves it free.      *)
LEMMA CommitEntries ==
  ASSUME IInv, Commit
  PROVE  \/ UNCHANGED [s \in Visible |-> EntryOf(s)]
         \/ Pool!Next
<1>1. /\ call.pc = "commit"
      /\ proc_table' = [proc_table EXCEPT ![call.slot] =
                          [state |-> IF call.op = "process" THEN "RUNNABLE" ELSE "FREE",
                           context |-> call.page, name |-> None]]
      /\ UNCHANGED <<base_of_heap, memory>>
  BY DEF Commit, At, vmemVars
<1>2. TypeOK /\ call.slot \in Slot /\ call.op \in {"process", "proc0"}
  BY DEF IInv, TypeOK
<1>3. ASSUME NEW s \in Slot, s # call.slot PROVE EntryOf(s)' = EntryOf(s)
  <2>1. proc_table'[s] = proc_table[s]
    BY <1>1, <1>2, <1>3 DEF TypeOK
  <2> QED
    BY <1>1, <2>1, EntryKept
<1>4. CASE call.slot = 0
  BY <1>3, <1>4, SameEntries DEF Visible, proc_current
<1>5. CASE call.slot # 0
  <2>1. call.op = "process" /\ call.start \in Starts /\ call.args \in Args
    BY <1>1, <1>2, <1>5 DEF IInv, StageInv
  <2>2. PICK t \in Visible : t = call.slot
    BY <1>2, <1>5 DEF Visible, proc_current
  <2>3. PICK new : new = [start |-> call.start, args |-> call.args]
    OBVIOUS
  <2>4. EntryOf(t) = None
    BY <1>1, <2>2 DEF IInv, StageInv, EntryOf
  <2>5. EntryOf(t)' = new
    <3>1. /\ proc_table'[t].state = "RUNNABLE"
          /\ proc_table'[t].context = call.page
      BY <1>1, <1>2, <2>1, <2>2 DEF TypeOK
    <3>2. memory'[call.page - base_of_heap'] = Fresh(call.start, call.args)
      BY <1>1 DEF IInv, BuiltIsFresh
    <3> QED
      BY <2>3, <3>1, <3>2, <1>1 DEF EntryOf, Fresh
  <2>6. \A s \in Visible : EntryOf(s)' = IF s = t THEN new ELSE EntryOf(s)
    BY <1>3, <2>2, <2>5 DEF Visible
  <2>7. [s \in Visible |-> EntryOf(s)]' =
          [[s \in Visible |-> EntryOf(s)] EXCEPT ![t] = new]
    BY <2>6 DEF Visible
  <2>8. Pool!Create(t, call.start, call.args)
    BY <2>2, <2>3, <2>4, <2>7 DEF Pool!Create, Visible
  <2> QED
    BY <2>1, <2>2, <2>8 DEF Pool!Next, Visible
<1> QED
  BY <1>4, <1>5

(* Every step of the table is a step of ProcessPool or changes no entry.   *)
LEMMA StepEntries ==
  IInv /\ [Next]_vars => [Pool!Next]_[s \in Visible |-> EntryOf(s)]
<1> SUFFICES ASSUME IInv, [Next]_vars
             PROVE  UNCHANGED [s \in Visible |-> EntryOf(s)] \/ Pool!Next
  OBVIOUS
<1> DEFINE Kept == UNCHANGED [s \in Visible |-> EntryOf(s)]
<1>1. UNCHANGED <<base_of_heap, proc_table, memory>> => Kept
  BY EntryKept, SameEntries DEF Visible
<1>2. ASSUME NEW start \in Starts, NEW args \in Args, FindSlot(start, args) PROVE Kept
  BY <1>1, <1>2 DEF FindSlot, vmemVars
<1>3. CASE NoSlot
  BY <1>1, <1>3 DEF NoSlot, vmemVars
<1>4. CASE BuildContext
  BY <1>4, BuildContextEntries, SameEntries DEF Visible
<1>5. CASE BuildContextPanics
  BY <1>5, BuildContextPanicsEntries, SameEntries DEF Visible
<1>6. CASE Commit
  BY <1>6, CommitEntries
<1>7. CASE CountAndReturn
  BY <1>1, <1>7 DEF CountAndReturn, vmemVars
<1>8. ASSUME NEW t \in Slot, NEW name \in Names, NameProcess(t, name) PROVE Kept
  BY <1>8, NameProcessEntries, SameEntries DEF Visible
<1>9. CASE BootProc0
  BY <1>1, <1>9 DEF BootProc0, CreateProc0, vmemVars
<1>10. CASE SaveInterrupted
  BY <1>10, SaveInterruptedEntries, SameEntries
<1>11. CASE SaveFaults
  BY <1>1, <1>11 DEF SaveFaults, vmemVars
<1>12. CASE UNCHANGED vars
  BY <1>1, <1>12 DEF vars
<1> QED
  BY <1>2, <1>3, <1>4, <1>5, <1>6, <1>7, <1>8, <1>9, <1>10, <1>11, <1>12
  DEF Next, CreateProcess, Interrupt

(* The process table implements ProcessPool: a created process keeps its   *)
(* entry registers through every later create_process and every interrupt. *)
THEOREM ImplementsPool == Spec => PoolSpec
<1>1. Init => Pool!Init
  <2>1. Init => \A s \in Slot : EntryOf(s) = None
    BY DEF Init, EmptyEntry, EntryOf
  <2> QED
    BY <2>1 DEF Pool!Init
<1> QED
  BY <1>1, StepEntries, InvariantHolds, PTL DEF Spec, PoolSpec, Pool!Spec, Visible
==============================================================================
