---------------------------- MODULE MCProcesses ----------------------------
(***************************************************************************)
(* Instances of Processes for TLC: a memory map with a region that holds   *)
(* the heap behind one that is too small, one where the only region is too *)
(* small, and a machine that reports no memory at all.                     *)
(***************************************************************************)
EXTENDS Processes

MCMemMaps ==
  LET small == [usable |-> TRUE, base |-> 1, length |-> PAGE_TABLE_SIZE - 1]
      large == [usable |-> TRUE, base |-> 10, length |-> PAGE_TABLE_SIZE]
  IN  {<<small, large>>, <<small>>, <<>>}
===========================================================================
