---------------------------- MODULE ProcessPool ----------------------------
(***************************************************************************)
(* What the process table promises the code that will schedule processes:  *)
(* a slot that was given to a process keeps exactly the entry registers    *)
(* the process was created with until it runs, whatever other calls and    *)
(* interrupts do in between.                                               *)
(***************************************************************************)
CONSTANTS Slots, Starts, Args, Free

VARIABLE entry    (* slot -> Free, or what its process will start with      *)

Init == entry = [s \in Slots |-> Free]

Create(s, start, args) ==
  /\ entry[s] = Free
  /\ entry' = [entry EXCEPT ![s] = [start |-> start, args |-> args]]

Next == \E s \in Slots, start \in Starts, args \in Args : Create(s, start, args)

Spec == Init /\ [][Next]_entry
===========================================================================
