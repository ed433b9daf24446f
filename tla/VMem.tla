------------------------------- MODULE VMem -------------------------------
(***************************************************************************)
(* The physical memory map of vmem.c and the page allocator of             *)
(* allocator.c: their state and their operations.  The module has no       *)
(* specification of its own; Heap gives it arbitrary clients and Processes *)
(* the client the kernel has.                                              *)
(*                                                                         *)
(* Addresses and lengths are counted in pages: the boot protocol aligns    *)
(* every usable region, the direct-map offset and the kernel's load        *)
(* address to PAGE_SIZE, and get_free_page only returns multiples of it,   *)
(* so the division by PAGE_SIZE in free_page is exact.                     *)
(***************************************************************************)
EXTENDS Integers, Sequences

CONSTANTS
  PAGE_TABLE_SIZE,     (* pages in the heap, and entries of its bitmap      *)
  MAX_MEMORY_REGIONS,  (* entries of memory_map                             *)
  HHDM_OFFSET,         (* where the bootloader maps physical address 0      *)
  KERNEL_BASE,         (* physical address the kernel was loaded at         *)
  ADDRESS_SPACE,       (* pages in the address space: uintptr_t wraps here  *)
  MemMaps              (* the memory maps the bootloader may report         *)

Page    == 0 .. PAGE_TABLE_SIZE - 1
Region  == 0 .. MAX_MEMORY_REGIONS - 1
Address == 0 .. ADDRESS_SPACE - 1
NULL    == 0

MemMapEntry == [usable : BOOLEAN, base : Nat, length : Nat]

ASSUME SizeAssumption ==
  /\ PAGE_TABLE_SIZE \in Nat \ {0}
  /\ MAX_MEMORY_REGIONS \in Nat \ {0}
  /\ ADDRESS_SPACE \in Nat \ {0}
  /\ KERNEL_BASE \in Address

(* The bootloader reports no usable memory at physical address 0, and the  *)
(* direct map of what it reports fits the address space.                   *)
ASSUME MemMapAssumption ==
  /\ HHDM_OFFSET \in Nat
  /\ MemMaps \subseteq Seq(MemMapEntry)
  /\ \A m \in MemMaps : \A i \in DOMAIN m :
       /\ m[i].usable => m[i].base > 0
       /\ HHDM_OFFSET + m[i].base + m[i].length <= ADDRESS_SPACE

VARIABLES
  response,      (* memmap_request.response: what the bootloader reported   *)
  memory_map,    (* the usable regions the kernel kept                      *)
  base_of_heap,  (* address of the heap, 0 until the first allocation       *)
  pages          (* pageTable.pages: which pages are in use                 *)

vmemVars == <<response, memory_map, base_of_heap, pages>>

---------------------------------------------------------------------------
(* How many entries of map m before position i are usable.                 *)
UsableBefore(m, i) == Len(SelectSeq(SubSeq(m, 1, i - 1), LAMBDA e : e.usable))

(* build_memmap: the k-th usable entry goes to region k, the ones beyond   *)
(* MAX_MEMORY_REGIONS are dropped, and regions with no entry keep their    *)
(* zeroes.                                                                 *)
BuildMemmap(m) ==
  [k \in Region |->
     IF \E i \in DOMAIN m : m[i].usable /\ UsableBefore(m, i) = k
     THEN LET i == CHOOSE j \in DOMAIN m : m[j].usable /\ UsableBefore(m, j) = k
          IN  [start |-> m[i].base, length |-> m[i].length]
     ELSE [start |-> 0, length |-> 0]]

(* The state after _kernel_start has called build_memmap.                  *)
VMemInit ==
  /\ response \in MemMaps
  /\ memory_map = BuildMemmap(response)
  /\ base_of_heap = 0
  /\ pages = [i \in Page |-> FALSE]

---------------------------------------------------------------------------
(* get_free_page *)

(* Mutant of BigEnough: a region of exactly the heap's size is passed over.*)
BigEnoughStrict(r) == memory_map[r].length > PAGE_TABLE_SIZE

BigEnough(r) == memory_map[r].length >= PAGE_TABLE_SIZE

(* Mutant of LocateHeap: the conversion goes from virtual to physical.      *)
LocateHeapBackwards ==
  \/ base_of_heap # 0 /\ UNCHANGED base_of_heap
  \/ /\ base_of_heap = 0
     /\ \E r \in Region :
          /\ BigEnough(r)
          /\ \A q \in 0 .. r - 1 : ~BigEnough(q)
          /\ base_of_heap' = memory_map[r].start - HHDM_OFFSET
  \/ /\ base_of_heap = 0
     /\ \A r \in Region : ~BigEnough(r)
     /\ UNCHANGED base_of_heap

(* The first loop: on the first call the heap is put at the direct-map     *)
(* address of the first region that can hold it; with no such region       *)
(* base_of_heap stays 0.                                                   *)
LocateHeap ==
  \/ base_of_heap # 0 /\ UNCHANGED base_of_heap
  \/ /\ base_of_heap = 0
     /\ \E r \in Region :
          /\ BigEnough(r)
          /\ \A q \in 0 .. r - 1 : ~BigEnough(q)
          /\ base_of_heap' = memory_map[r].start + HHDM_OFFSET
  \/ /\ base_of_heap = 0
     /\ \A r \in Region : ~BigEnough(r)
     /\ UNCHANGED base_of_heap

(* Mutant of FirstFree: the scan stops one page early.                     *)
FirstFreeUnchecked(i) == \A j \in 0 .. i - 1 : pages[j]

FirstFree(i) == ~pages[i] /\ \A j \in 0 .. i - 1 : pages[j]

(* Mutant of GetFreePage: the page is handed out and not marked.           *)
GetFreePageUnmarked(i) ==
  /\ LocateHeap
  /\ base_of_heap' # 0
  /\ FirstFree(i)
  /\ UNCHANGED <<response, memory_map, pages>>

(* A call that succeeds marks page i; what it returns is base_of_heap' + i. *)
GetFreePage(i) ==
  /\ LocateHeap
  /\ base_of_heap' # 0
  /\ FirstFree(i)
  /\ pages' = [pages EXCEPT ![i] = TRUE]
  /\ UNCHANGED <<response, memory_map>>

(* A call that panics: no region can hold the heap, or every page is used. *)
GetFreePagePanics ==
  /\ LocateHeap
  /\ base_of_heap' = 0 \/ \A i \in Page : pages[i]
  /\ UNCHANGED <<response, memory_map, pages>>

---------------------------------------------------------------------------
(* free_page: the index adds kernel_start_physical() before it takes away  *)
(* base_of_heap, in the unsigned arithmetic of uintptr_t.                  *)
FreeIndex(page) == (page + KERNEL_BASE - base_of_heap) % ADDRESS_SPACE

(* An index beyond the bitmap clears a byte that is not the allocator's.   *)
FreePage(page) ==
  /\ pages' = [i \in Page |-> IF i = FreeIndex(page) THEN FALSE ELSE pages[i]]
  /\ UNCHANGED <<response, memory_map, base_of_heap>>

---------------------------------------------------------------------------
VMemTypeOK ==
  /\ response \in MemMaps
  /\ memory_map \in [Region -> [start : Nat, length : Nat]]
  /\ base_of_heap \in Nat
  /\ pages \in [Page -> BOOLEAN]

(* The pages in use, by index in the heap and by address.                  *)
UsedPages == {i \in Page : pages[i]}
UsedAddresses == {base_of_heap + i : i \in UsedPages}

(* Before the heap has an address no page of it is in use.                 *)
HeapInv == base_of_heap = 0 => UsedPages = {}
===========================================================================
