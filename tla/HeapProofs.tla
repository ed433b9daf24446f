----------------------------- MODULE HeapProofs -----------------------------
(***************************************************************************)
(* The allocator under clients that keep what they get, as the kernel      *)
(* does: for every heap size and every memory map the bootloader may       *)
(* report, the bitmap agrees with the pages handed out, a panic has a      *)
(* reason, and get_free_page implements the page pool.                     *)
(***************************************************************************)
EXTENDS Heap, TLAPS

(* Once the heap has an address it is that of a region that can hold it.   *)
HeapInRegion ==
  base_of_heap # 0 =>
    \E r \in Region : BigEnough(r) /\ base_of_heap = memory_map[r].start + HHDM_OFFSET

(* The heap lies in a region of the map build_memmap made; the pages in    *)
(* use are the pages handed out; the allocator panics when they are all of *)
(* them.                                                                   *)
IInv ==
  /\ TypeOK
  /\ HeapInv
  /\ memory_map = BuildMemmap(response)
  /\ HeapInRegion
  /\ UsedIsHeld
  /\ PanicIsJustified

---------------------------------------------------------------------------
(* What one call of get_free_page does to the allocator.                   *)

(* build_memmap fills memory_map with numbers from the bootloader's map.   *)
LEMMA VMemInitTypeOK == VMemInit => VMemTypeOK /\ HeapInv
<1> SUFFICES ASSUME VMemInit PROVE VMemTypeOK /\ HeapInv
  OBVIOUS
<1>1. response \in Seq(MemMapEntry)
  BY MemMapAssumption DEF VMemInit
<1>2. ASSUME NEW k \in Region
      PROVE  memory_map[k] \in [start : Nat, length : Nat]
  <2> DEFINE P(j) == response[j].usable /\ UsableBefore(response, j) = k
  <2>1. CASE \E i \in DOMAIN response : P(i)
    <3> DEFINE i == CHOOSE j \in DOMAIN response : P(j)
    <3>1. i \in DOMAIN response
      BY <2>1
    <3>2. response[i] \in MemMapEntry
      BY <1>1, <3>1
    <3>3. memory_map[k] = [start |-> response[i].base, length |-> response[i].length]
      BY <2>1 DEF VMemInit, BuildMemmap
    <3> QED
      BY <3>2, <3>3 DEF MemMapEntry
  <2>2. CASE ~ \E i \in DOMAIN response : P(i)
    <3>1. memory_map[k] = [start |-> 0, length |-> 0]
      BY <2>2 DEF VMemInit, BuildMemmap
    <3> QED
      BY <3>1
  <2> QED
    BY <2>1, <2>2
<1>3. memory_map \in [Region -> [start : Nat, length : Nat]]
  <2>1. memory_map = [k \in Region |-> memory_map[k]]
    BY DEF VMemInit, BuildMemmap
  <2> QED
    BY <1>2, <2>1
<1> QED
  BY <1>3 DEF VMemInit, VMemTypeOK, HeapInv, UsedPages

(* LocateHeap leaves the heap where it is, or gives it a nonzero address,  *)
(* or finds no region for it.                                              *)
LEMMA LocateHeapFacts ==
  ASSUME VMemTypeOK, LocateHeap
  PROVE  /\ base_of_heap' \in Nat
         /\ base_of_heap # 0 => base_of_heap' = base_of_heap
BY MemMapAssumption DEF VMemTypeOK, LocateHeap, Region

(* A successful call marks one page that was free and leaves the others.   *)
LEMMA GetFreePageFacts ==
  ASSUME VMemTypeOK, HeapInv, NEW i \in Page, GetFreePage(i)
  PROVE  /\ VMemTypeOK'
         /\ HeapInv'
         /\ base_of_heap' \in Nat \ {0}
         /\ base_of_heap # 0 => base_of_heap' = base_of_heap
         /\ UsedAddresses' = UsedAddresses \union {base_of_heap' + i}
         /\ base_of_heap' + i \notin UsedAddresses
<1>1. /\ base_of_heap' \in Nat \ {0}
      /\ base_of_heap # 0 => base_of_heap' = base_of_heap
  BY LocateHeapFacts DEF GetFreePage
<1>2. VMemTypeOK' /\ HeapInv'
  BY <1>1 DEF GetFreePage, VMemTypeOK, HeapInv
<1>3. i \notin UsedPages
  BY DEF GetFreePage, FirstFree, UsedPages
<1>4. UsedPages' = UsedPages \union {i}
  BY DEF GetFreePage, UsedPages, VMemTypeOK
<1>5. /\ UsedAddresses' = UsedAddresses \union {base_of_heap' + i}
      /\ base_of_heap' + i \notin UsedAddresses
  <2>1. CASE base_of_heap = 0
    BY <2>1, <1>4 DEF HeapInv, UsedAddresses
  <2>2. CASE base_of_heap # 0
    <3>1. base_of_heap' = base_of_heap /\ base_of_heap \in Nat
      BY <2>2, <1>1 DEF VMemTypeOK
    <3>2. \A j \in UsedPages : base_of_heap + j # base_of_heap' + i
      BY <3>1, <1>3 DEF UsedPages, Page
    <3> QED
      BY <3>1, <3>2, <1>4 DEF UsedAddresses
  <2> QED
    BY <2>1, <2>2
<1> QED
  BY <1>1, <1>2, <1>5

(* A call that panics leaves the bitmap alone.                             *)
LEMMA GetFreePagePanicsFacts ==
  ASSUME VMemTypeOK, HeapInv, GetFreePagePanics
  PROVE  /\ VMemTypeOK'
         /\ HeapInv'
         /\ UsedPages' = UsedPages
         /\ UsedAddresses' = UsedAddresses
<1>1. /\ base_of_heap' \in Nat
      /\ base_of_heap # 0 => base_of_heap' = base_of_heap
  BY LocateHeapFacts DEF GetFreePagePanics
<1>2. UsedPages' = UsedPages
  BY DEF GetFreePagePanics, UsedPages
<1>3. VMemTypeOK' /\ HeapInv'
  BY <1>1, <1>2 DEF GetFreePagePanics, VMemTypeOK, HeapInv
<1>4. UsedAddresses' = UsedAddresses
  <2>1. CASE base_of_heap = 0
    BY <2>1, <1>2 DEF HeapInv, UsedAddresses
  <2>2. CASE base_of_heap # 0
    BY <2>2, <1>1, <1>2 DEF UsedAddresses
  <2> QED
    BY <2>1, <2>2
<1> QED
  BY <1>2, <1>3, <1>4

---------------------------------------------------------------------------
(* A region of memory_map that is not empty is a usable entry of the       *)
(* bootloader's map.                                                       *)
LEMMA RegionIsUsable ==
  ASSUME NEW m \in Seq(MemMapEntry), NEW r \in Region, BuildMemmap(m)[r].length > 0
  PROVE  \E i \in DOMAIN m : /\ m[i].usable
                             /\ BuildMemmap(m)[r] = [start |-> m[i].base, length |-> m[i].length]
<1> DEFINE P(j) == m[j].usable /\ UsableBefore(m, j) = r
<1>1. CASE \E i \in DOMAIN m : P(i)
  <2> DEFINE i == CHOOSE j \in DOMAIN m : P(j)
  <2>1. i \in DOMAIN m /\ P(i)
    BY <1>1
  <2>2. BuildMemmap(m)[r] = [start |-> m[i].base, length |-> m[i].length]
    BY <1>1 DEF BuildMemmap
  <2> QED
    BY <2>1, <2>2
<1>2. CASE ~ \E i \in DOMAIN m : P(i)
  <2>1. BuildMemmap(m)[r] = [start |-> 0, length |-> 0]
    BY <1>2 DEF BuildMemmap
  <2> QED
    BY <2>1
<1> QED
  BY <1>1, <1>2

HeapUsable == base_of_heap # 0 => \A i \in Page : base_of_heap + i \in UsableAddresses

(* Every page of a heap that lies in a region is in usable memory.         *)
LEMMA HeapIsUsable ==
  VMemTypeOK /\ memory_map = BuildMemmap(response) /\ HeapInRegion => HeapUsable
<1> SUFFICES ASSUME VMemTypeOK, memory_map = BuildMemmap(response), HeapInRegion,
                    base_of_heap # 0, NEW i \in Page
             PROVE  base_of_heap + i \in UsableAddresses
  BY DEF HeapUsable
<1>1. response \in Seq(MemMapEntry)
  BY MemMapAssumption DEF VMemTypeOK
<1>2. PICK r \in Region : BigEnough(r) /\ base_of_heap = memory_map[r].start + HHDM_OFFSET
  BY DEF HeapInRegion
<1>3. memory_map[r].length > 0
  <2>1. memory_map[r].length \in Nat
    BY DEF VMemTypeOK
  <2> QED
    BY <1>2, <2>1, SizeAssumption DEF BigEnough
<1>4. PICK j \in DOMAIN response :
        /\ response[j].usable
        /\ memory_map[r] = [start |-> response[j].base, length |-> response[j].length]
  BY <1>1, <1>3, RegionIsUsable
<1>5. response[j].base \in Nat /\ response[j].length \in Nat
  <2>1. response[j] \in MemMapEntry
    BY <1>1
  <2> QED
    BY <2>1 DEF MemMapEntry
<1>6. response[j].base + i \in response[j].base .. response[j].base + response[j].length - 1
  BY <1>2, <1>4, <1>5, SizeAssumption DEF BigEnough, Page
<1>7. base_of_heap + i = HHDM_OFFSET + (response[j].base + i)
  BY <1>2, <1>4, <1>5, MemMapAssumption DEF Page
<1> QED
  BY <1>4, <1>6, <1>7 DEF UsableAddresses

(* LocateHeap gives the heap an address in a region, and leaves it without *)
(* one only when no region can hold it.                                    *)
LEMMA LocateHeapInRegion ==
  ASSUME VMemTypeOK, HeapInRegion, LocateHeap, memory_map = BuildMemmap(response),
         UNCHANGED <<response, memory_map>>
  PROVE  /\ HeapInRegion'
         /\ base_of_heap' = 0 => \A r \in Region : memory_map[r].length < PAGE_TABLE_SIZE
<1> USE DEF HeapInRegion, BigEnough
<1>1. CASE base_of_heap # 0 /\ UNCHANGED base_of_heap
  BY <1>1
<1>2. CASE /\ base_of_heap = 0
           /\ \E r \in Region : BigEnough(r) /\ base_of_heap' = memory_map[r].start + HHDM_OFFSET
  <2>1. PICK r \in Region : BigEnough(r) /\ base_of_heap' = memory_map[r].start + HHDM_OFFSET
    BY <1>2
  <2>2. base_of_heap' # 0
    <3>1. /\ response \in MemMaps /\ response \in Seq(MemMapEntry)
          /\ memory_map[r].length \in Nat
      BY MemMapAssumption DEF VMemTypeOK
    <3>2. memory_map[r].length > 0
      BY <2>1, <3>1, SizeAssumption
    <3>3. PICK j \in DOMAIN response :
            /\ response[j].usable
            /\ memory_map[r] = [start |-> response[j].base, length |-> response[j].length]
      BY <3>1, <3>2, RegionIsUsable
    <3>4. response[j] \in MemMapEntry
      BY <3>1
    <3>5. response[j].base \in Nat \ {0}
      BY <3>1, <3>3, <3>4, MemMapAssumption DEF MemMapEntry
    <3> QED
      BY <2>1, <3>3, <3>5, MemMapAssumption
  <2> QED
    BY <2>1, <2>2
<1>3. CASE base_of_heap = 0 /\ (\A r \in Region : ~BigEnough(r)) /\ UNCHANGED base_of_heap
  BY <1>3, SizeAssumption DEF VMemTypeOK
<1> QED
  BY <1>1, <1>2, <1>3 DEF LocateHeap

(* The set of elements of a sequence grows by what is appended.            *)
LEMMA HeldAppend ==
  ASSUME NEW s \in Seq(Nat), NEW a \in Nat
  PROVE  /\ Append(s, a) \in Seq(Nat)
         /\ {Append(s, a)[k] : k \in DOMAIN Append(s, a)} = {s[k] : k \in DOMAIN s} \union {a}
<1> DEFINE t == Append(s, a)
<1>1. /\ t \in Seq(Nat) /\ DOMAIN s = 1 .. Len(s) /\ DOMAIN t = 1 .. Len(s) + 1
      /\ Len(s) \in Nat /\ t[Len(s) + 1] = a
      /\ \A k \in 1 .. Len(s) : t[k] = s[k]
  OBVIOUS
<1>2. DOMAIN t = DOMAIN s \union {Len(s) + 1}
  BY <1>1
<1> QED
  BY <1>1, <1>2

(* The address of a page is a number.                                      *)
LEMMA PageAddressTypeOK ==
  \A b \in Nat, i \in Page : b + i \in Nat
BY SizeAssumption DEF Page

---------------------------------------------------------------------------
(* No page is held at first.                                               *)
LEMMA InitIInv == Init => IInv
<1> SUFFICES ASSUME Init PROVE IInv
  OBVIOUS
<1>1. VMemTypeOK /\ HeapInv
  BY VMemInitTypeOK DEF Init
<1>2. held \in Seq(Nat) /\ status \in {"running", "halted"} /\ Held = {}
  BY DEF Init, Held
<1>3. UsedAddresses = {}
  BY DEF Init, VMemInit, UsedAddresses, UsedPages
<1>4. HeapInRegion /\ PanicIsJustified /\ memory_map = BuildMemmap(response)
  BY DEF Init, VMemInit, HeapInRegion, PanicIsJustified
<1> QED
  BY <1>1, <1>2, <1>3, <1>4 DEF IInv, TypeOK, UsedIsHeld

(* A call that succeeds hands out a page that is in usable memory and in   *)
(* nobody's hands.                                                         *)
LEMMA GetFacts ==
  ASSUME IInv, NEW i \in Page, Get(i)
  PROVE  /\ IInv'
         /\ UNCHANGED response
         /\ base_of_heap' + i \in UsableAddresses \ Held
         /\ held' = Append(held, base_of_heap' + i)
<1>1. /\ VMemTypeOK /\ HeapInv /\ GetFreePage(i) /\ status = "running"
      /\ memory_map = BuildMemmap(response) /\ HeapInRegion
      /\ Held = UsedAddresses /\ held \in Seq(Nat)
  BY DEF IInv, TypeOK, Get, UsedIsHeld
<1>2. /\ VMemTypeOK' /\ HeapInv' /\ base_of_heap' \in Nat \ {0}
      /\ UsedAddresses' = UsedAddresses \union {base_of_heap' + i}
      /\ base_of_heap' + i \notin UsedAddresses
  BY <1>1, GetFreePageFacts
<1>3. UNCHANGED <<response, memory_map, status>> /\ held' = Append(held, base_of_heap' + i)
  BY DEF Get, GetFreePage
<1>4. HeapInRegion'
  BY <1>1, <1>3, LocateHeapInRegion DEF GetFreePage
<1>5. (memory_map = BuildMemmap(response))'
  BY <1>1, <1>3
<1>6. base_of_heap' + i \in UsableAddresses'
  <2>1. HeapUsable'
    BY <1>2, <1>4, <1>5, HeapIsUsable, PTL
  <2> QED
    BY <1>2, <2>1 DEF HeapUsable, Page
<1>7. UsableAddresses' = UsableAddresses
  BY <1>3 DEF UsableAddresses
<1>8. held' \in Seq(Nat) /\ Held' = Held \union {base_of_heap' + i}
  <2>1. base_of_heap' + i \in Nat
    BY <1>2, PageAddressTypeOK
  <2> QED
    BY <1>1, <1>3, <2>1, HeldAppend DEF Held
<1> QED
  BY <1>1, <1>2, <1>3, <1>4, <1>5, <1>6, <1>7, <1>8
     DEF IInv, TypeOK, UsedIsHeld, PanicIsJustified

(* A panic with an address for the heap finds every page in use.           *)
LEMMA GetPanicsFacts ==
  ASSUME IInv, GetPanics
  PROVE  IInv' /\ UNCHANGED <<response, held>>
<1>1. /\ VMemTypeOK /\ HeapInv /\ GetFreePagePanics
      /\ memory_map = BuildMemmap(response) /\ HeapInRegion
      /\ Held = UsedAddresses /\ held \in Seq(Nat)
  BY DEF IInv, TypeOK, GetPanics, UsedIsHeld
<1>2. VMemTypeOK' /\ HeapInv' /\ UsedAddresses' = UsedAddresses /\ UsedPages' = UsedPages
  BY <1>1, GetFreePagePanicsFacts
<1>3. UNCHANGED <<response, memory_map, pages, held>> /\ status' = "halted"
  BY DEF GetPanics, GetFreePagePanics
<1>4. /\ HeapInRegion'
      /\ base_of_heap' = 0 => \A r \in Region : memory_map[r].length < PAGE_TABLE_SIZE
  BY <1>1, <1>3, LocateHeapInRegion DEF GetFreePagePanics
<1>5. (memory_map = BuildMemmap(response))'
  BY <1>1, <1>3
<1>6. Held' = UsedAddresses'
  BY <1>1, <1>2, <1>3 DEF Held
<1>7. PanicIsJustified'
  <2>1. CASE base_of_heap' = 0
    BY <1>3, <1>4, <2>1 DEF PanicIsJustified
  <2>2. CASE \A i \in Page : pages[i]
    <3>1. \A i \in Page : i \in UsedPages'
      BY <1>2, <2>2 DEF UsedPages
    <3>2. \A i \in Page : base_of_heap' + i \in Held'
      BY <1>6, <3>1 DEF UsedAddresses
    <3> QED
      BY <3>2 DEF PanicIsJustified, Page
  <2> QED
    BY <2>1, <2>2 DEF GetPanics, GetFreePagePanics
<1> QED
  BY <1>1, <1>2, <1>3, <1>4, <1>5, <1>6, <1>7 DEF IInv, TypeOK, UsedIsHeld

(* Each action in turn.                                                    *)
LEMMA StepIInv == IInv /\ [Next]_vars => IInv'
<1> SUFFICES ASSUME IInv, [Next]_vars PROVE IInv'
  OBVIOUS
<1>1. CASE GetPanics
  BY <1>1, GetPanicsFacts
<1>2. ASSUME NEW i \in Page, Get(i) PROVE IInv'
  BY <1>2, GetFacts
<1>3. CASE UNCHANGED vars
  BY <1>3 DEF vars, IInv, TypeOK, VMemTypeOK, HeapInv, HeapInRegion, BigEnough, UsedIsHeld,
              PanicIsJustified, Held, UsedAddresses, UsedPages
<1> QED
  BY <1>1, <1>2, <1>3 DEF Next

(* The bounds of the heap and its bookkeeping hold.                        *)
THEOREM InvariantHolds == Spec => []IInv
<1>1. Init => IInv
  BY InitIInv
<1>2. IInv /\ [Next]_vars => IInv'
  BY StepIInv
<1> QED
  BY <1>1, <1>2, PTL DEF Spec

(* The allocator's state keeps its types.                                  *)
THEOREM TypeCorrect == Spec => []TypeOK
<1>1. IInv => TypeOK
  BY DEF IInv
<1> QED
  BY <1>1, InvariantHolds, PTL

(* The bitmap says used exactly of the pages get_free_page handed out.     *)
THEOREM BitmapMatchesHolders == Spec => []UsedIsHeld
<1>1. IInv => UsedIsHeld
  BY DEF IInv
<1> QED
  BY <1>1, InvariantHolds, PTL

(* get_free_page panics only with every page handed out, or when no region *)
(* of the memory map can hold the heap.                                    *)
THEOREM PanicsAreJustified == Spec => []PanicIsJustified
<1>1. IInv => PanicIsJustified
  BY DEF IInv
<1> QED
  BY <1>1, InvariantHolds, PTL

---------------------------------------------------------------------------
(* The usable memory is what the bootloader reported once.                 *)
LEMMA UsableFixed ==
  ASSUME UNCHANGED response PROVE UNCHANGED UsableAddresses
BY DEF UsableAddresses

(* Every step of the allocator is a step of the page pool or leaves it     *)
(* alone.                                                                  *)
LEMMA StepImplementsPool ==
  IInv /\ [Next]_vars => [Pool!Next]_<<UsableAddresses, held>>
<1> SUFFICES ASSUME IInv, [Next]_vars PROVE [Pool!Next]_<<UsableAddresses, held>>
  OBVIOUS
<1>1. CASE GetPanics
  BY <1>1, GetPanicsFacts, UsableFixed
<1>2. ASSUME NEW i \in Page, Get(i) PROVE Pool!Next
  <2>1. /\ UNCHANGED UsableAddresses
        /\ base_of_heap' + i \in UsableAddresses \ Held
        /\ held' = Append(held, base_of_heap' + i)
    BY <1>2, GetFacts, UsableFixed
  <2>2. Pool!Get(base_of_heap' + i)
    BY <2>1 DEF Pool!Get, Pool!Held, Held
  <2> QED
    BY <2>1, <2>2 DEF Pool!Next
<1>3. CASE UNCHANGED vars
  BY <1>3, UsableFixed DEF vars
<1> QED
  BY <1>1, <1>2, <1>3 DEF Next

(* get_free_page implements the page pool: a page is handed out once, and  *)
(* it is memory the bootloader reported usable.                            *)
THEOREM AllocatorImplementsPool == Spec => PoolSpec
<1>1. Init => Pool!Init
  BY DEF Init, Pool!Init
<1>2. IInv /\ [Next]_vars => [Pool!Next]_<<UsableAddresses, held>>
  BY StepImplementsPool
<1> QED
  BY <1>1, <1>2, InvariantHolds, PTL DEF Spec, PoolSpec, Pool!Spec
=============================================================================
