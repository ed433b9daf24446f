------------------------------- MODULE Heap -------------------------------
(***************************************************************************)
(* The allocator of VMem under arbitrary clients: they ask for pages and   *)
(* give back pages they hold.  Nothing in the kernel calls free_page yet,  *)
(* so the kernel's own use of the allocator is Spec, without Put; SpecPut  *)
(* adds the clients the header vmem.h is written for.                      *)
(***************************************************************************)
EXTENDS VMem

VARIABLES
  held,    (* the addresses clients got and have not given back, in order   *)
  status   (* "running", or "halted" once panic has entered hcf             *)

vars == <<response, memory_map, base_of_heap, pages, held, status>>

Init == VMemInit /\ held = <<>> /\ status = "running"

Held == {held[k] : k \in DOMAIN held}

Get(i) ==
  /\ status = "running"
  /\ GetFreePage(i)
  /\ held' = Append(held, base_of_heap' + i)
  /\ UNCHANGED status

GetPanics ==
  /\ status = "running"
  /\ GetFreePagePanics
  /\ status' = "halted"
  /\ UNCHANGED held

Put(p) ==
  /\ status = "running"
  /\ FreePage(p)
  /\ held' = SelectSeq(held, LAMBDA q : q # p)
  /\ UNCHANGED status

Next == GetPanics \/ \E i \in Page : Get(i)

Spec == Init /\ [][Next]_vars

SpecPut == Init /\ [][Next \/ \E p \in Held : Put(p)]_vars

---------------------------------------------------------------------------
TypeOK ==
  /\ VMemTypeOK
  /\ held \in Seq(Nat)
  /\ status \in {"running", "halted"}

(* The direct-map addresses of the pages the bootloader reported usable.   *)
UsableAddresses ==
  UNION {{HHDM_OFFSET + a : a \in response[i].base .. response[i].base + response[i].length - 1} :
         i \in {j \in DOMAIN response : response[j].usable}}

(* get_free_page implements the page pool: a page is never handed to two   *)
(* clients, and every page handed out lies in memory the bootloader        *)
(* reported usable, although allocator.c only ever compares lengths and    *)
(* adds PAGE_SIZE * i to an address it computed once.                      *)
Pool == INSTANCE PagePool WITH usable <- UsableAddresses
PoolSpec == Pool!Spec

(* The bitmap says used exactly of the pages clients hold: no page leaks   *)
(* and no page in a client's hands is up for allocation (the marking of    *)
(* get_free_page against the index computed by free_page).                 *)
UsedIsHeld == Held = UsedAddresses

(* get_free_page panics only when the heap has no page left to give or no  *)
(* region of memory_map can hold the heap; in particular a region of       *)
(* exactly the heap's size is taken.                                       *)
PanicIsJustified ==
  status = "halted" =>
    \/ \A i \in Page : base_of_heap + i \in Held
    \/ \A r \in Region : memory_map[r].length < PAGE_TABLE_SIZE
===========================================================================
