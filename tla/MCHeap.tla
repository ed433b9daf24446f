------------------------------ MODULE MCHeap ------------------------------
(***************************************************************************)
(* Instances of Heap for TLC: every memory map of up to four entries, laid *)
(* out one after the other from physical page 1, whose lengths are one     *)
(* page less than the heap, the heap's size and one page more.             *)
(***************************************************************************)
EXTENDS Heap

CONSTANT MaxEntries

MCLengths == {PAGE_TABLE_SIZE - 1, PAGE_TABLE_SIZE, PAGE_TABLE_SIZE + 1}

MCLayout(kinds) ==
  LET before[i \in 1 .. MaxEntries + 1] ==
        IF i = 1 THEN 1 ELSE before[i - 1] + kinds[i - 1].length
  IN  [i \in DOMAIN kinds |->
         [usable |-> kinds[i].usable, base |-> before[i], length |-> kinds[i].length]]

MCMemMaps ==
  UNION {{MCLayout(k) : k \in [1 .. n -> [usable : BOOLEAN, length : MCLengths]]} :
         n \in 0 .. MaxEntries}
===========================================================================
