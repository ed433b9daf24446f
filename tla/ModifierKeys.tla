---------------------------- MODULE ModifierKeys ----------------------------
(***************************************************************************)
(* What a keyboard driver promises to the reader of its characters: a      *)
(* letter is upper case when a shift key is down or caps lock is on but    *)
(* not both, a control character when a control key is down, and keys may  *)
(* go down and up in any order.  The keys of a modifier count as one: when *)
(* one of them goes up, none is down until it is pressed or repeats.       *)
(***************************************************************************)
CONSTANTS
  Letters, Symbols,               (* keys of characters                      *)
  Controls,                       (* those of them with a control character  *)
  Cursors,                        (* keys whose code is always the same      *)
  ShiftKeys, CtlKeys, AltKeys, CapsKeys, OtherKeys

AllKeys == UNION {Letters, Symbols, Cursors, ShiftKeys, CtlKeys, AltKeys,
                 CapsKeys, OtherKeys}

VARIABLES
  down,    (* keys that are down                                             *)
  caps,    (* caps lock                                                      *)
  char     (* the last character: its key and its form                       *)

Init == down = {} /\ caps = FALSE /\ char = [key |-> 0, form |-> "none"]

Holds(some) == down \intersect some # {}

Form(k) ==
  CASE k \in Cursors -> "cursor"
    [] k \in Controls /\ Holds(CtlKeys) -> "control"
    [] k \in Letters /\ ~Holds(CtlKeys) -> IF Holds(ShiftKeys) # caps THEN "upper" ELSE "lower"
    [] k \in Symbols /\ ~Holds(CtlKeys) -> IF Holds(ShiftKeys) THEN "shifted" ELSE "plain"
    [] OTHER -> "none"

(* A key goes down, or repeats while it is held.                           *)
KeyDown(k) ==
  /\ down' = down \union {k}
  /\ caps' = IF k \in CapsKeys THEN ~caps ELSE caps
  /\ char' = IF Form(k) = "none" THEN char ELSE [key |-> k, form |-> Form(k)]

Together(k) == CASE k \in ShiftKeys -> ShiftKeys
                 [] k \in CtlKeys -> CtlKeys
                 [] k \in AltKeys -> AltKeys
                 [] OTHER -> {k}

KeyUp(k) == down' = down \ Together(k) /\ UNCHANGED <<caps, char>>

Next == \E k \in AllKeys : KeyDown(k) \/ KeyUp(k)

Spec == Init /\ [][Next]_<<down, caps, char>>
=============================================================================
