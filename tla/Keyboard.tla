------------------------------ MODULE Keyboard ------------------------------
(***************************************************************************)
(* kb_get_scancode, called once for each byte the keyboard controller      *)
(* holds, and the keyboard in front of it.  A key is named by the index it *)
(* has in the driver's tables: its scan code, with bit 7 for the keys whose*)
(* codes follow an 0xE0.  Of a character the model keeps the key and the   *)
(* form: which of the three maps it is from and its case.                  *)
(***************************************************************************)
EXTENDS Integers, Sequences

CONSTANTS
  Keys,       (* keys of the keyboard that are used                          *)
  MaxBytes    (* bound: bytes in the keyboard's buffer                       *)

(* No key has a make code whose break code would be 0xE0, the prefix.      *)
ASSUME KeyboardAssumption ==
  /\ Keys \subseteq {k \in 1 .. 211 : k % 128 \in 1 .. 95}
  /\ MaxBytes \in Nat

Flags == {"SHIFT", "CTL", "ALT", "CAPSLOCK", "NUMLOCK", "SCROLLLOCK", "E0ESC"}

VARIABLES
  held,     (* keys a finger is on                                           *)
  bytes,    (* bytes the keyboard sent and the driver has not read; of each  *)
            (* also the key and the event it completes, which no driver sees *)
  down,     (* history: keys the driver takes to be down: pressed, and no    *)
            (* key of the same modifier released since                       *)
  shift,    (* the static variable of kb_get_scancode                        *)
  char      (* the last character kb_get_scancode returned                   *)

vars == <<held, bytes, down, shift, char>>

NoChar == [key |-> 0, form |-> "none"]

Init == held = {} /\ bytes = <<>> /\ down = {} /\ shift = {} /\ char = NoChar

---------------------------------------------------------------------------
(* The keyboard, scan code set 1.                                          *)
Byte(b, k, event) == [byte |-> b, key |-> k, event |-> event]

Escaped(k, codes) == IF k >= 128 THEN <<Byte(224, k, "prefix")>> \o codes ELSE codes

MakeCode(k)  == Escaped(k, <<Byte(k % 128, k, "make")>>)
BreakCode(k) == Escaped(k, <<Byte(128 + (k % 128), k, "break")>>)

Send(codes) ==
  /\ Len(bytes) + Len(codes) <= MaxBytes
  /\ bytes' = bytes \o codes
  /\ UNCHANGED <<down, shift, char>>

PressOrRepeat(k) == held' = held \union {k} /\ Send(MakeCode(k))

Release(k) == k \in held /\ held' = held \ {k} /\ Send(BreakCode(k))

---------------------------------------------------------------------------
(* The tables of keyboard.h.                                               *)
shiftcode(d) == CASE d \in {42, 54}  -> {"SHIFT"}
                  [] d \in {29, 157} -> {"CTL"}
                  [] d \in {56, 184} -> {"ALT"}
                  [] OTHER -> {}

togglecode(d) == CASE d = 58 -> {"CAPSLOCK"}
                   [] d = 69 -> {"NUMLOCK"}
                   [] d = 70 -> {"SCROLLLOCK"}
                   [] OTHER -> {}

letters == (16 .. 25) \union (30 .. 38) \union (44 .. 50)
symbols == (1 .. 15) \union {26, 27, 28, 39, 40, 41, 43, 51, 52, 53, 55, 57}
             \union (71 .. 83) \union {156, 181}
cursors == {151, 200, 201, 203, 205, 207, 208, 209, 210, 211}

ctlmap == letters \union {28, 43, 53, 156, 181}

(* Mutant of Map: the control keys do not select a map.                    *)
MapWithoutCtl(flags) ==
  IF "SHIFT" \in flags THEN "shiftmap" ELSE "normalmap"

(* charcode[shift & (CTL | SHIFT)]                                         *)
Map(flags) ==
  IF "CTL" \in flags THEN "ctlmap"
  ELSE IF "SHIFT" \in flags THEN "shiftmap" ELSE "normalmap"

Swap == [lower |-> "upper", upper |-> "lower"]

Entry(map, d) ==
  CASE d \in cursors -> "cursor"
    [] map = "ctlmap" /\ d \in ctlmap -> "control"
    [] map = "shiftmap" /\ d \in letters -> "upper"
    [] map = "shiftmap" /\ d \in symbols -> "shifted"
    [] map = "normalmap" /\ d \in letters -> "lower"
    [] map = "normalmap" /\ d \in symbols -> "plain"
    [] OTHER -> "none"

FormOf(d, flags) ==
  LET entry == Entry(Map(flags), d)
  IN  IF "CAPSLOCK" \in flags /\ entry \in DOMAIN Swap THEN Swap[entry] ELSE entry

---------------------------------------------------------------------------
(* kb_get_scancode, for a byte of each of its branches.                    *)
Escape(data) ==
  /\ data = 224
  /\ shift' = shift \union {"E0ESC"}
  /\ UNCHANGED char

(* Mutant of KeyReleased: the escape stays in force.                       *)
KeyReleasedEscaped(data) ==
  /\ data >= 128 /\ data # 224
  /\ shift' = shift \ shiftcode(IF "E0ESC" \in shift THEN data ELSE data - 128)
  /\ UNCHANGED char

KeyReleased(data) ==
  /\ data >= 128 /\ data # 224
  /\ LET d == IF "E0ESC" \in shift THEN data ELSE data - 128
     IN  shift' = shift \ (shiftcode(d) \union {"E0ESC"})
  /\ UNCHANGED char

(* Mutant of TableIndex: an escaped code is looked up like any other.      *)
TableIndexUnescaped(data) == data

TableIndex(data) == IF "E0ESC" \in shift THEN data + 128 ELSE data

KeyPressed(data) ==
  /\ data < 128
  /\ LET d       == TableIndex(data)
         shifted == (shift \ {"E0ESC"}) \union shiftcode(d)
         flags   == (shifted \ togglecode(d)) \union (togglecode(d) \ shifted)
         form    == FormOf(d, flags)
     IN  /\ shift' = flags
         /\ char' = IF form = "none" THEN char ELSE [key |-> d, form |-> form]

(* The keys that share a flag with k.                                      *)
Together(k) == {j \in Keys : j = k \/ shiftcode(j) \intersect shiftcode(k) # {}}

(* One interrupt, one byte; without a byte the function changes nothing.   *)
GetScancode ==
  /\ bytes # <<>>
  /\ LET b == Head(bytes)
     IN  /\ Escape(b.byte) \/ KeyReleased(b.byte) \/ KeyPressed(b.byte)
         /\ down' = CASE b.event = "make"  -> down \union {b.key}
                      [] b.event = "break" -> down \ Together(b.key)
                      [] OTHER -> down
  /\ bytes' = Tail(bytes)
  /\ UNCHANGED held

Next == \/ \E k \in Keys : PressOrRepeat(k) \/ Release(k)
        \/ GetScancode

Spec == Init /\ [][Next]_vars
---------------------------------------------------------------------------
TypeOK ==
  /\ held \subseteq Keys /\ down \subseteq Keys
  /\ bytes \in Seq([byte : 1 .. 224, key : Keys, event : {"prefix", "make", "break"}])
  /\ Len(bytes) <= MaxBytes
  /\ shift \subseteq Flags
  /\ char = NoChar \/ char.key \in Keys

shiftKeys == {k \in Keys : shiftcode(k) = {"SHIFT"}}
ctlKeys   == {k \in Keys : shiftcode(k) = {"CTL"}}
altKeys   == {k \in Keys : shiftcode(k) = {"ALT"}}
capsKeys  == {k \in Keys : togglecode(k) = {"CAPSLOCK"}}

(* Once the driver has read every byte, its modifier flags are those of    *)
(* the keys that are held, and no escape is pending: a prefix, a repeat or *)
(* a release between other keys' bytes leaves nothing behind.  Only a key  *)
(* that was held together with another of its modifier may be forgotten,   *)
(* when that one is released.                                              *)
ModifiersMatch ==
  bytes = <<>> =>
    /\ "SHIFT" \in shift <=> down \intersect shiftKeys # {}
    /\ "CTL"   \in shift <=> down \intersect ctlKeys # {}
    /\ "ALT"   \in shift <=> down \intersect altKeys # {}
    /\ "E0ESC" \notin shift
    /\ down \subseteq held
    /\ \A k \in held \ down : Together(k) # {k}

(* The bytes the driver reads make up the events of ModifierKeys, and the  *)
(* characters it returns are the ones promised there.                      *)
Promise ==
  INSTANCE ModifierKeys WITH
    Letters <- Keys \intersect letters, Symbols <- Keys \intersect symbols,
    Controls <- Keys \intersect ctlmap, Cursors <- Keys \intersect cursors,
    ShiftKeys <- shiftKeys, CtlKeys <- ctlKeys, AltKeys <- altKeys,
    CapsKeys <- capsKeys, OtherKeys <- Keys, caps <- "CAPSLOCK" \in shift

KeysSpec == Promise!Spec
=============================================================================
