----------------------------- MODULE PagePool -----------------------------
(***************************************************************************)
(* What a page allocator promises its clients: a page handed out belongs   *)
(* to one holder until that holder gives it back, and every page is real   *)
(* memory.                                                                 *)
(***************************************************************************)
EXTENDS Sequences

VARIABLES
  usable,   (* the addresses of the pages of usable memory                  *)
  held      (* the pages in the hands of clients, in the order they got them*)

Held == {held[k] : k \in DOMAIN held}

Init == held = <<>>

Get(p) ==
  /\ p \in usable \ Held
  /\ held' = Append(held, p)

Put(p) ==
  /\ p \in Held
  /\ held' = SelectSeq(held, LAMBDA q : q # p)

Next == UNCHANGED usable /\ \E p \in usable : Get(p) \/ Put(p)

Spec == Init /\ [][Next]_<<usable, held>>
===========================================================================
