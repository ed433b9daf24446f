--------------------------- MODULE KeyboardProofs ---------------------------
(***************************************************************************)
(* The driver's flags follow the keys, for any set of keys and any number  *)
(* of bytes that wait.                                                     *)
(***************************************************************************)
EXTENDS Keyboard, SequenceTheorems, TLAPS

Prefix(k) == Byte(224, k, "prefix")
Make(k)   == Byte(k % 128, k, "make")
Break(k)  == Byte(128 + (k % 128), k, "break")

Events == {Prefix(k) : k \in {j \in Keys : j >= 128}}
            \union {Make(k) : k \in Keys} \union {Break(k) : k \in Keys}

(* Byte b is the second one of its code.                                   *)
Follows(b) == b.event # "prefix" /\ b.key >= 128

(* A prefix comes before the second byte of its key's code and nowhere     *)
(* else; the driver remembers the one it has read.                         *)
QueueOK ==
  /\ bytes \in Seq(Events) /\ Len(bytes) <= MaxBytes
  /\ \A n \in 1 .. Len(bytes) : bytes[n].event = "prefix" =>
       n < Len(bytes) /\ Follows(bytes[n + 1])
  /\ \A n \in 1 .. Len(bytes) : n > 1 /\ Follows(bytes[n]) => bytes[n - 1].event = "prefix"
  /\ "E0ESC" \in shift <=> bytes # <<>> /\ Follows(bytes[1])

FlagsOK ==
  /\ held \subseteq Keys /\ down \subseteq Keys /\ shift \subseteq Flags
  /\ char = NoChar \/ char.key \in Keys
  /\ "SHIFT" \in shift <=> down \intersect shiftKeys # {}
  /\ "CTL"   \in shift <=> down \intersect ctlKeys # {}
  /\ "ALT"   \in shift <=> down \intersect altKeys # {}

(* The n-th byte that waits makes or breaks key k.                         *)
At(k, event, n) == n \in 1 .. Len(bytes) /\ bytes[n].key = k /\ bytes[n].event = event

(* Of the events of k that wait, the last one is this.                     *)
LastIs(k, event, other) ==
  \E n \in Nat : At(k, event, n) /\ \A m \in Nat : At(k, other, m) => m < n

(* A key no finger is on will be up when all is read.                      *)
ReleasedOK ==
  \A k \in Keys \ held :
    \/ k \notin down /\ \A n \in Nat : ~At(k, "make", n)
    \/ LastIs(k, "break", "make")

(* A key that is held will be down when all is read.                       *)
HeldOK ==
  \A k \in held : Together(k) = {k} =>
    \/ k \in down /\ \A n \in Nat : ~At(k, "break", n)
    \/ LastIs(k, "make", "break")

IInv == QueueOK /\ FlagsOK /\ ReleasedOK /\ HeldOK

---------------------------------------------------------------------------
(* A key is the low bits of its code and whether it is escaped.            *)
LEMMA KeyNumbers ==
  ASSUME NEW k \in Keys
  PROVE  /\ k \in 1 .. 211 /\ k % 128 \in 1 .. 95
         /\ k < 128 => k % 128 = k
         /\ k >= 128 => (k % 128) + 128 = k
<1>1. k \in 1 .. 211 /\ k % 128 \in 1 .. 95
  BY KeyboardAssumption
<1>2. \A j \in 1 .. 211 : (j < 128 => j % 128 = j) /\ (j >= 128 => (j % 128) + 128 = j)
  OBVIOUS
<1> QED
  BY <1>1, <1>2

(* What a byte is, by its event.                                           *)
LEMMA EventFacts ==
  ASSUME NEW b \in Events
  PROVE  /\ b.key \in Keys
         /\ \/ b.event = "prefix" /\ b.byte = 224 /\ b.key >= 128
            \/ b.event = "make" /\ b.byte = b.key % 128
            \/ b.event = "break" /\ b.byte = 128 + (b.key % 128)
BY DEF Events, Prefix, Make, Break, Byte

(* The tables: a key has one modifier or none, and toggles one lock.       *)
LEMMA TableFacts ==
  \A d : /\ shiftcode(d) \in {{"SHIFT"}, {"CTL"}, {"ALT"}, {}}
         /\ togglecode(d) \in {{"CAPSLOCK"}, {"NUMLOCK"}, {"SCROLLLOCK"}, {}}
<1>1. ASSUME NEW d PROVE shiftcode(d) \in {{"SHIFT"}, {"CTL"}, {"ALT"}, {}}
  BY DEF shiftcode
<1>2. ASSUME NEW d PROVE togglecode(d) \in {{"CAPSLOCK"}, {"NUMLOCK"}, {"SCROLLLOCK"}, {}}
  BY DEF togglecode
<1> QED
  BY <1>1, <1>2

(* What the driver does with the byte at the head of the queue.            *)
ReadsPrefix(b) ==
  b.event = "prefix" /\ down' = down /\ shift' = shift \union {"E0ESC"} /\ char' = char

ReadsBreak(b) ==
  /\ b.event = "break" /\ down' = down \ Together(b.key)
  /\ shift' = shift \ (shiftcode(b.key) \union {"E0ESC"}) /\ char' = char

Pressed(d)   == (shift \ {"E0ESC"}) \union shiftcode(d)
FlagsWith(d) == (Pressed(d) \ togglecode(d)) \union (togglecode(d) \ Pressed(d))

ReadsMake(b) ==
  /\ b.event = "make" /\ down' = down \union {b.key} /\ shift' = FlagsWith(b.key)
  /\ char' = IF FormOf(b.key, FlagsWith(b.key)) = "none" THEN char
             ELSE [key |-> b.key, form |-> FormOf(b.key, FlagsWith(b.key))]

(* The byte the driver reads next.                                         *)
LEMMA HeadFacts ==
  ASSUME QueueOK, bytes # <<>>
  PROVE  Head(bytes) = bytes[1] /\ bytes[1] \in Events /\ 1 \in 1 .. Len(bytes)
BY DEF QueueOK

(* It is a prefix, a make code or a break code.                            *)
LEMMA GetCases ==
  ASSUME QueueOK, GetScancode
  PROVE  ReadsPrefix(bytes[1]) \/ ReadsMake(bytes[1]) \/ ReadsBreak(bytes[1])
<1> DEFINE b == bytes[1]
           k == b.key
<1>1. bytes # <<>> /\ Head(bytes) = b /\ b \in Events
  BY HeadFacts DEF GetScancode
<1>2. /\ Escape(b.byte) \/ KeyReleased(b.byte) \/ KeyPressed(b.byte)
      /\ down' = CASE b.event = "make"  -> down \union {b.key}
                   [] b.event = "break" -> down \ Together(b.key)
                   [] OTHER -> down
  BY <1>1 DEF GetScancode
<1>3. "E0ESC" \in shift <=> b.event # "prefix" /\ k >= 128
  BY <1>1 DEF QueueOK, Follows
<1> HIDE DEF b
<1>4. k \in Keys /\ k \in 1 .. 211 /\ k % 128 \in 1 .. 95
      /\ (k < 128 => k % 128 = k) /\ (k >= 128 => (k % 128) + 128 = k)
  BY <1>1, EventFacts, KeyNumbers
<1> HIDE DEF k
<1>5. CASE b.event = "prefix"
  <2>1. b.byte = 224
    BY <1>1, <1>5, EventFacts
  <2>2. Escape(b.byte)
    BY <1>2, <2>1 DEF KeyReleased, KeyPressed
  <2> QED
    BY <1>2, <1>5, <2>2 DEF ReadsPrefix, Escape, b
<1>6. CASE b.event = "make"
  <2>1. b.byte = k % 128
    BY <1>1, <1>6, EventFacts DEF k
  <2>2. KeyPressed(b.byte)
    BY <1>2, <1>4, <2>1 DEF KeyReleased, Escape
  <2>3. TableIndex(b.byte) = k
    BY <1>3, <1>4, <1>6, <2>1 DEF TableIndex
  <2>4. down' = down \union {k}
    BY <1>2, <1>6 DEF k
  <2> QED
    BY <1>6, <2>2, <2>3, <2>4 DEF ReadsMake, KeyPressed, FlagsWith, Pressed, k, b
<1>7. CASE b.event = "break"
  <2>1. b.byte = 128 + (k % 128)
    BY <1>1, <1>7, EventFacts DEF k
  <2>2. KeyReleased(b.byte)
    BY <1>2, <1>4, <2>1 DEF KeyPressed, Escape
  <2>3. (IF "E0ESC" \in shift THEN b.byte ELSE b.byte - 128) = k
    BY <1>3, <1>4, <1>7, <2>1
  <2>4. down' = down \ Together(k)
    BY <1>2, <1>7 DEF k
  <2> QED
    BY <1>7, <2>2, <2>3, <2>4 DEF ReadsBreak, KeyReleased, k, b
<1> QED
  BY <1>1, <1>5, <1>6, <1>7, EventFacts DEF b

---------------------------------------------------------------------------
(* The flags follow the keys.                                              *)
LEMMA GetFlags ==
  ASSUME QueueOK, FlagsOK, GetScancode
  PROVE  FlagsOK'
<1> DEFINE b == bytes[1]
           k == b.key
<1>1. k \in Keys
  BY HeadFacts, EventFacts DEF GetScancode
<1>2. /\ shiftcode(k) \in {{"SHIFT"}, {"CTL"}, {"ALT"}, {}}
      /\ togglecode(k) \in {{"CAPSLOCK"}, {"NUMLOCK"}, {"SCROLLLOCK"}, {}}
  BY TableFacts
<1>3. ReadsPrefix(b) \/ ReadsMake(b) \/ ReadsBreak(b)
  BY GetCases
<1>4. held' = held
  BY DEF GetScancode
<1> HIDE DEF b
<1>5. CASE ReadsPrefix(b)
  BY <1>4, <1>5 DEF ReadsPrefix, FlagsOK, Flags, shiftKeys, ctlKeys, altKeys
<1>6. CASE ReadsMake(b)
  <2>1. down' = down \union {k} /\ down' \subseteq Keys
    BY <1>1, <1>6 DEF ReadsMake, FlagsOK
  <2>2. char' = NoChar \/ char'.key \in Keys
    BY <1>1, <1>6 DEF ReadsMake, FlagsOK
  <2>3. shift' \subseteq Flags
    BY <1>2, <1>6 DEF ReadsMake, FlagsOK, FlagsWith, Pressed, Flags
  <2>4. /\ "SHIFT" \in shift' <=> "SHIFT" \in shift \/ shiftcode(k) = {"SHIFT"}
        /\ "CTL" \in shift' <=> "CTL" \in shift \/ shiftcode(k) = {"CTL"}
        /\ "ALT" \in shift' <=> "ALT" \in shift \/ shiftcode(k) = {"ALT"}
    BY <1>2, <1>6 DEF ReadsMake, FlagsWith, Pressed
  <2>5. /\ down' \intersect shiftKeys # {} <=>
              down \intersect shiftKeys # {} \/ shiftcode(k) = {"SHIFT"}
        /\ down' \intersect ctlKeys # {} <=>
              down \intersect ctlKeys # {} \/ shiftcode(k) = {"CTL"}
        /\ down' \intersect altKeys # {} <=>
              down \intersect altKeys # {} \/ shiftcode(k) = {"ALT"}
    BY <1>1, <2>1 DEF shiftKeys, ctlKeys, altKeys
  <2>6. shiftKeys' = shiftKeys /\ ctlKeys' = ctlKeys /\ altKeys' = altKeys
    BY DEF shiftKeys, ctlKeys, altKeys
  <2> QED
    BY <1>4, <2>1, <2>2, <2>3, <2>4, <2>5, <2>6 DEF FlagsOK
<1>7. CASE ReadsBreak(b)
  <2>1. down' = down \ Together(k) /\ shift' = shift \ (shiftcode(k) \union {"E0ESC"})
        /\ char' = char
    BY <1>7 DEF ReadsBreak
  <2>2. Together(k) = {j \in Keys : j = k \/ shiftcode(j) \intersect shiftcode(k) # {}}
    BY DEF Together
  <2>3. /\ "SHIFT" \in shift' <=> down' \intersect shiftKeys # {}
        /\ "CTL"   \in shift' <=> down' \intersect ctlKeys # {}
        /\ "ALT"   \in shift' <=> down' \intersect altKeys # {}
    <3>1. /\ "SHIFT" \in shift' <=> "SHIFT" \in shift /\ shiftcode(k) # {"SHIFT"}
          /\ "CTL" \in shift' <=> "CTL" \in shift /\ shiftcode(k) # {"CTL"}
          /\ "ALT" \in shift' <=> "ALT" \in shift /\ shiftcode(k) # {"ALT"}
      BY <1>2, <2>1
    <3>2. /\ down' \intersect shiftKeys # {} <=>
                down \intersect shiftKeys # {} /\ shiftcode(k) # {"SHIFT"}
          /\ down' \intersect ctlKeys # {} <=>
                down \intersect ctlKeys # {} /\ shiftcode(k) # {"CTL"}
          /\ down' \intersect altKeys # {} <=>
                down \intersect altKeys # {} /\ shiftcode(k) # {"ALT"}
      BY <1>1, <1>2, <2>1, <2>2 DEF shiftKeys, ctlKeys, altKeys
    <3> QED
      BY <3>1, <3>2 DEF FlagsOK
  <2>4. shiftKeys' = shiftKeys /\ ctlKeys' = ctlKeys /\ altKeys' = altKeys
    BY DEF shiftKeys, ctlKeys, altKeys
  <2> QED
    BY <1>4, <2>1, <2>3, <2>4 DEF FlagsOK
<1> QED
  BY <1>3, <1>5, <1>6, <1>7

---------------------------------------------------------------------------
(* The queue when its head is read.                                        *)
LEMMA TailFacts ==
  ASSUME QueueOK, GetScancode
  PROVE  /\ bytes' \in Seq(Events) /\ Len(bytes) \in Nat \ {0} /\ Len(bytes') = Len(bytes) - 1
         /\ \A n \in 1 .. Len(bytes') : bytes'[n] = bytes[n + 1]
<1>1. bytes \in Seq(Events) /\ bytes # <<>> /\ bytes' = Tail(bytes)
  BY DEF QueueOK, GetScancode
<1> QED
  BY <1>1

(* Reading it leaves a queue of whole codes, or the second half of one.    *)
LEMMA GetQueue ==
  ASSUME QueueOK, GetScancode
  PROVE  QueueOK'
<1> DEFINE b == bytes[1]
           len == Len(bytes)
<1>1. /\ bytes' \in Seq(Events) /\ len \in Nat \ {0} /\ Len(bytes') = len - 1
      /\ \A n \in 1 .. Len(bytes') : bytes'[n] = bytes[n + 1]
  BY TailFacts
<1>2. b \in Events /\ b.key \in Keys
  BY HeadFacts, EventFacts DEF GetScancode
<1>3. ReadsPrefix(b) \/ ReadsMake(b) \/ ReadsBreak(b)
  BY GetCases
<1>4. /\ len <= MaxBytes
      /\ \A n \in 1 .. len : bytes[n].event = "prefix" => n < len /\ Follows(bytes[n + 1])
      /\ \A n \in 1 .. len : n > 1 /\ Follows(bytes[n]) => bytes[n - 1].event = "prefix"
  BY DEF QueueOK
<1> HIDE DEF len, b
<1>5. Len(bytes') <= MaxBytes
  BY <1>1, <1>4, KeyboardAssumption
<1>6. ASSUME NEW n \in 1 .. Len(bytes'), bytes'[n].event = "prefix"
      PROVE  n < Len(bytes') /\ Follows(bytes'[n + 1])
  <2>1. n + 1 \in 1 .. len /\ bytes[n + 1].event = "prefix"
    BY <1>1, <1>6
  <2>2. n + 1 < len /\ Follows(bytes[(n + 1) + 1])
    BY <1>4, <2>1
  <2>3. n + 1 \in 1 .. Len(bytes') /\ n < Len(bytes')
    BY <1>1, <2>2
  <2>4. bytes'[n + 1] = bytes[(n + 1) + 1]
    BY <1>1, <2>3
  <2> QED
    BY <2>2, <2>3, <2>4
<1>7. ASSUME NEW n \in 1 .. Len(bytes'), n > 1, Follows(bytes'[n])
      PROVE  bytes'[n - 1].event = "prefix"
  <2>1. /\ n + 1 \in 1 .. len /\ n + 1 > 1 /\ n - 1 \in 1 .. Len(bytes')
        /\ (n + 1) - 1 = n /\ (n - 1) + 1 = n
    BY <1>1, <1>7
  <2>2. Follows(bytes[n + 1])
    BY <1>1, <1>7
  <2>3. bytes[(n + 1) - 1].event = "prefix"
    BY <1>4, <2>1, <2>2
  <2>4. bytes'[n - 1] = bytes[(n - 1) + 1]
    BY <1>1, <2>1
  <2> QED
    BY <2>1, <2>3, <2>4
<1>8. "E0ESC" \in shift' <=> b.event = "prefix"
  <2>1. /\ shiftcode(b.key) \in {{"SHIFT"}, {"CTL"}, {"ALT"}, {}}
        /\ togglecode(b.key) \in {{"CAPSLOCK"}, {"NUMLOCK"}, {"SCROLLLOCK"}, {}}
    BY TableFacts
  <2> QED
    BY <1>3, <2>1 DEF ReadsPrefix, ReadsMake, ReadsBreak, FlagsWith, Pressed
<1>9. b.event = "prefix" <=> bytes' # <<>> /\ Follows(bytes'[1])
  <2>1. CASE b.event = "prefix"
    <3>1. 1 < len /\ Follows(bytes[1 + 1])
      BY <1>1, <1>4, <2>1 DEF b
    <3>2. 1 \in 1 .. Len(bytes')
      BY <1>1, <3>1
    <3>3. bytes'[1] = bytes[1 + 1] /\ bytes' # <<>>
      BY <1>1, <3>2
    <3> QED
      BY <2>1, <3>1, <3>3
  <2>2. CASE bytes' # <<>> /\ Follows(bytes'[1])
    <3>1. Len(bytes') # 0
      BY <1>1, <2>2
    <3>2. 1 \in 1 .. Len(bytes') /\ 1 + 1 \in 1 .. len /\ 1 + 1 > 1 /\ (1 + 1) - 1 = 1
      BY <1>1, <3>1
    <3>3. Follows(bytes[1 + 1])
      BY <1>1, <2>2, <3>2
    <3>4. bytes[(1 + 1) - 1].event = "prefix"
      BY <1>4, <3>2, <3>3
    <3> QED
      BY <2>2, <3>2, <3>4 DEF b
  <2> QED
    BY <2>1, <2>2
<1> QED
  BY <1>1, <1>5, <1>6, <1>7, <1>8, <1>9 DEF QueueOK, Follows

---------------------------------------------------------------------------
(* The queue when a key sends its code, which ends in byte x.              *)
Sends(k, x) ==
  /\ Len(bytes') <= MaxBytes
  /\ bytes' = bytes \o (IF k >= 128 THEN <<Prefix(k)>> \o <<x>> ELSE <<x>>)
  /\ UNCHANGED <<down, shift, char>>

Appends(k, x, count) ==
  /\ Len(bytes') = Len(bytes) + count
  /\ \A n \in 1 .. Len(bytes) : bytes'[n] = bytes[n]
  /\ bytes'[Len(bytes) + count] = x
  /\ count = 1 => k < 128
  /\ count = 2 => k >= 128 /\ bytes'[Len(bytes) + 1] = Prefix(k)

(* A code of one or of two bytes at the end of the queue.                  *)
LEMMA OneOnTop ==
  ASSUME NEW S, NEW s \in Seq(S), NEW x \in S
  PROVE  /\ s \o <<x>> \in Seq(S) /\ Len(s) \in Nat /\ Len(s \o <<x>>) = Len(s) + 1
         /\ \A n \in 1 .. Len(s) : (s \o <<x>>)[n] = s[n]
         /\ (s \o <<x>>)[Len(s) + 1] = x
OBVIOUS

(* A two-byte code at the end of a sequence.                               *)
LEMMA TwoOnTop ==
  ASSUME NEW S, NEW s \in Seq(S), NEW p \in S, NEW x \in S
  PROVE  LET t == s \o (<<p>> \o <<x>>)
         IN  /\ t \in Seq(S) /\ Len(s) \in Nat /\ Len(t) = Len(s) + 2
             /\ \A n \in 1 .. Len(s) : t[n] = s[n]
             /\ t[Len(s) + 1] = p /\ t[Len(s) + 2] = x
<1> DEFINE q == <<p>> \o <<x>>
           t == s \o q
<1>1. <<p>> \in Seq(S) /\ Len(<<p>>) = 1 /\ <<p>>[1] = p
  OBVIOUS
<1>2. /\ q \in Seq(S) /\ Len(q) = Len(<<p>>) + 1
      /\ \A n \in 1 .. Len(<<p>>) : q[n] = <<p>>[n]
      /\ q[Len(<<p>>) + 1] = x
  BY <1>1, OneOnTop
<1> HIDE DEF q
<1>2b. q \in Seq(S)
  BY <1>2
<1>3. Len(q) = 2 /\ q[1] = p /\ q[2] = x
  BY <1>1, <1>2
<1>4. /\ t \in Seq(S) /\ Len(s) \in Nat /\ Len(t) = Len(s) + Len(q)
      /\ \A n \in 1 .. Len(s) : t[n] = s[n]
      /\ \A n \in 1 .. Len(q) : t[Len(s) + n] = q[n]
  BY <1>2b
<1> HIDE DEF t
<1>5. /\ t \in Seq(S) /\ Len(s) \in Nat /\ Len(t) = Len(s) + 2
      /\ \A n \in 1 .. Len(s) : t[n] = s[n]
      /\ t[Len(s) + 1] = p /\ t[Len(s) + 2] = x
  BY <1>3, <1>4
<1> QED
  BY <1>5 DEF t, q

(* A key adds one byte, or the prefix and one.                             *)
LEMMA SendFacts ==
  ASSUME QueueOK, NEW k \in Keys, NEW x \in {Make(k), Break(k)}, Sends(k, x)
  PROVE  /\ bytes' \in Seq(Events) /\ Len(bytes) \in Nat
         /\ \E count \in {1, 2} : Appends(k, x, count)
<1>1. k \in 1 .. 211 /\ x \in Events /\ (k >= 128 => Prefix(k) \in Events)
  BY KeyNumbers DEF Events
<1>2. bytes \in Seq(Events)
  BY DEF QueueOK
<1>3. CASE k >= 128
  <2> DEFINE p == Prefix(k)
  <2>1. p \in Events /\ bytes' = bytes \o (<<p>> \o <<x>>)
    BY <1>1, <1>3 DEF Sends
  <2> HIDE DEF p
  <2>3. /\ bytes' \in Seq(Events) /\ Len(bytes') = Len(bytes) + 2 /\ Len(bytes) \in Nat
        /\ \A n \in 1 .. Len(bytes) : bytes'[n] = bytes[n]
        /\ bytes'[Len(bytes) + 1] = p /\ bytes'[Len(bytes) + 2] = x
    BY <1>1, <1>2, <2>1, TwoOnTop
  <2>4. Appends(k, x, 2)
    <3>1. 2 # 1
      OBVIOUS
    <3> QED
      BY <1>3, <2>3, <3>1, Zenon DEF Appends, p
  <2> QED
    BY <2>3, <2>4
<1>4. CASE k < 128
  <2>1. bytes' = bytes \o <<x>>
    BY <1>1, <1>4 DEF Sends
  <2>2. /\ bytes' \in Seq(Events) /\ Len(bytes') = Len(bytes) + 1 /\ Len(bytes) \in Nat
        /\ \A n \in 1 .. Len(bytes) : bytes'[n] = bytes[n]
        /\ bytes'[Len(bytes) + 1] = x
    BY <1>1, <1>2, <2>1, OneOnTop
  <2>3. Appends(k, x, 1)
    <3>1. 1 # 2
      OBVIOUS
    <3> QED
      BY <1>4, <2>2, <3>1, Zenon DEF Appends
  <2> QED
    BY <2>2, <2>3
<1> QED
  BY <1>1, <1>3, <1>4

(* That leaves a queue of whole codes as well.                             *)
LEMMA SendQueue ==
  ASSUME QueueOK, NEW k \in Keys, NEW x \in {Make(k), Break(k)}, Sends(k, x)
  PROVE  QueueOK'
<1> DEFINE len == Len(bytes)
<1>1. bytes \in Seq(Events) /\ bytes' \in Seq(Events) /\ len \in Nat
  BY SendFacts DEF QueueOK
<1>2. PICK count \in {1, 2} : Appends(k, x, count)
  BY SendFacts
<1>3. /\ \A n \in 1 .. len : bytes[n].event = "prefix" => n < len /\ Follows(bytes[n + 1])
      /\ \A n \in 1 .. len : n > 1 /\ Follows(bytes[n]) => bytes[n - 1].event = "prefix"
      /\ "E0ESC" \in shift <=> bytes # <<>> /\ Follows(bytes[1])
  BY DEF QueueOK
<1>4. /\ Len(bytes') = len + count
      /\ \A n \in 1 .. len : bytes'[n] = bytes[n]
      /\ bytes'[len + count] = x
      /\ count = 1 => k < 128
      /\ count = 2 => k >= 128 /\ bytes'[len + 1] = Prefix(k)
  BY <1>2 DEF Appends
<1>5. x.key = k /\ x.event # "prefix" /\ Prefix(k).event = "prefix" /\ Prefix(k).key = k
  BY DEF Make, Break, Prefix, Byte
<1>6. k \in 1 .. 211
  BY KeyNumbers
<1> HIDE DEF len
<1>7. ASSUME NEW n \in 1 .. len + count, bytes'[n].event = "prefix"
      PROVE  n < len + count /\ Follows(bytes'[n + 1])
  <2>1. CASE n \in 1 .. len
    <3>1. n < len /\ Follows(bytes[n + 1])
      BY <1>3, <1>4, <1>7, <2>1
    <3>2. n + 1 \in 1 .. len
      BY <1>1, <3>1, <2>1
    <3> QED
      BY <1>1, <1>2, <1>4, <3>1, <3>2
  <2>2. CASE n = len + count
    BY <1>4, <1>5, <1>7, <2>2
  <2>3. CASE n = len + 1 /\ count = 2
    <3>1. n + 1 = len + count /\ n < len + count
      BY <1>1, <2>3
    <3>2. bytes'[n + 1] = x
      BY <1>4, <3>1
    <3> QED
      BY <1>4, <1>5, <2>3, <3>1, <3>2 DEF Follows
  <2> QED
    BY <1>1, <1>2, <2>1, <2>2, <2>3
<1>8. ASSUME NEW n \in 1 .. len + count, n > 1, Follows(bytes'[n])
      PROVE  bytes'[n - 1].event = "prefix"
  <2>1. CASE n \in 1 .. len
    <3>1. n - 1 \in 1 .. len
      BY <1>1, <1>8, <2>1
    <3> QED
      BY <1>3, <1>4, <1>8, <2>1, <3>1
  <2>2. CASE n = len + count
    <3>1. k >= 128
      BY <1>4, <1>5, <1>8, <2>2 DEF Follows
    <3>2. count = 2
      BY <1>2, <1>4, <1>6, <3>1
    <3>3. n - 1 = len + 1
      BY <1>1, <2>2, <3>2
    <3> QED
      BY <1>4, <1>5, <3>2, <3>3
  <2>3. CASE n = len + 1 /\ count = 2
    BY <1>4, <1>5, <1>8, <2>3 DEF Follows
  <2> QED
    BY <1>1, <1>2, <2>1, <2>2, <2>3
<1>9. bytes' # <<>> /\ (Follows(bytes'[1]) <=> bytes # <<>> /\ Follows(bytes[1]))
  <2>1. bytes' # <<>>
    BY <1>1, <1>2, <1>4
  <2>2. CASE bytes # <<>>
    <3>1. 1 \in 1 .. len
      BY <1>1, <2>2 DEF len
    <3> QED
      BY <1>4, <2>1, <2>2, <3>1
  <2>3. CASE bytes = <<>>
    <3>1. len = 0
      BY <2>3 DEF len
    <3>2. CASE count = 1
      <4>1. bytes'[1] = x /\ k < 128
        BY <1>4, <3>1, <3>2
      <4> QED
        BY <1>5, <1>6, <2>1, <2>3, <4>1 DEF Follows
    <3>3. CASE count = 2
      <4>1. bytes'[1] = Prefix(k)
        BY <1>4, <3>1, <3>3
      <4> QED
        BY <1>5, <2>1, <2>3, <4>1 DEF Follows
    <3> QED
      BY <1>2, <3>2, <3>3
  <2> QED
    BY <2>2, <2>3
<1>10. Len(bytes') <= MaxBytes /\ shift' = shift
  BY DEF Sends
<1> QED
  BY <1>1, <1>3, <1>4, <1>7, <1>8, <1>9, <1>10 DEF QueueOK, Follows

---------------------------------------------------------------------------
(* Which events wait after a key has sent its code, and after one byte has *)
(* been read.                                                              *)
LEMMA SendEvents ==
  ASSUME QueueOK, NEW k \in Keys, NEW x \in {Make(k), Break(k)}, Sends(k, x)
  PROVE  \E last \in Nat :
           /\ \A j, n : \A ev \in {"make", "break"} :
                At(j, ev, n)' <=> At(j, ev, n) \/ (n = last /\ j = k /\ ev = x.event)
           /\ \A j, n : \A ev \in {"make", "break"} : At(j, ev, n) => n < last
<1>1. Len(bytes) \in Nat
  BY SendFacts
<1>2. PICK count \in {1, 2} : Appends(k, x, count)
  BY SendFacts
<1> DEFINE len == Len(bytes)
           last == len + count
<1>3. /\ Len(bytes') = last
      /\ \A n \in 1 .. len : bytes'[n] = bytes[n]
      /\ bytes'[last] = x
      /\ count = 2 => bytes'[len + 1] = Prefix(k)
  BY <1>2 DEF Appends
<1>4. x.key = k /\ Prefix(k).event = "prefix"
  BY DEF Make, Break, Prefix, Byte
<1> HIDE DEF len
<1>5. last \in Nat /\ \A n \in 1 .. len : n \in 1 .. last /\ n < last
  BY <1>1, <1>2 DEF len
<1>6. \A n \in 1 .. last : n \in 1 .. len \/ n = last \/ (n = len + 1 /\ count = 2)
  BY <1>1, <1>2 DEF len
<1>7. last \in 1 .. last /\ last \notin 1 .. len
  BY <1>1, <1>2 DEF len
<1> HIDE DEF last
<1>8. ASSUME NEW j, NEW n, NEW ev \in {"make", "break"}
      PROVE  At(j, ev, n)' <=> At(j, ev, n) \/ (n = last /\ j = k /\ ev = x.event)
  <2>1. At(j, ev, n)' <=> n \in 1 .. last /\ bytes'[n].key = j /\ bytes'[n].event = ev
    BY <1>3 DEF At
  <2>2. At(j, ev, n) <=> n \in 1 .. len /\ bytes[n].key = j /\ bytes[n].event = ev
    BY DEF At, len
  <2>3. CASE n \in 1 .. len
    BY <1>3, <1>5, <1>7, <2>1, <2>2, <2>3
  <2>4. CASE n = last
    BY <1>3, <1>4, <1>7, <2>1, <2>2, <2>4
  <2>5. CASE n = len + 1 /\ count = 2 /\ n # last /\ n \notin 1 .. len
    BY <1>3, <1>4, <2>1, <2>2, <2>5
  <2>6. CASE n \notin 1 .. last
    BY <1>5, <1>7, <2>1, <2>2, <2>6
  <2> QED
    BY <1>6, <2>3, <2>4, <2>5, <2>6
<1>9. \A j, n : \A ev \in {"make", "break"} : At(j, ev, n) => n < last
  BY <1>5 DEF At, len
<1> QED
  BY <1>5, <1>8, <1>9

(* The events that wait move up by one.                                    *)
LEMMA GetEvents ==
  ASSUME QueueOK, GetScancode
  PROVE  \A j, ev : \A n \in Nat : At(j, ev, n)' <=> n # 0 /\ At(j, ev, n + 1)
<1>1. /\ Len(bytes) \in Nat \ {0} /\ Len(bytes') = Len(bytes) - 1
      /\ \A n \in 1 .. Len(bytes') : bytes'[n] = bytes[n + 1]
  BY TailFacts
<1>2. ASSUME NEW j, NEW ev, NEW n \in Nat
      PROVE  At(j, ev, n)' <=> n # 0 /\ At(j, ev, n + 1)
  <2>1. n \in 1 .. Len(bytes') <=> n # 0 /\ n + 1 \in 1 .. Len(bytes)
    BY <1>1
  <2> QED
    BY <1>1, <2>1 DEF At
<1> QED
  BY <1>2

---------------------------------------------------------------------------
(* A key that goes down or up, and what its event will do when it is read. *)
LEMMA SendKeys ==
  ASSUME QueueOK, FlagsOK, ReleasedOK, HeldOK, NEW k \in Keys,
         \/ Sends(k, Make(k)) /\ held' = held \union {k}
         \/ Sends(k, Break(k)) /\ held' = held \ {k}
  PROVE  ReleasedOK' /\ HeldOK'
<1>1. Make(k).event = "make" /\ Break(k).event = "break"
  BY DEF Make, Break, Byte
<1>2. PICK x \in {Make(k), Break(k)} :
        /\ Sends(k, x)
        /\ x.event = "make" => held' = held \union {k}
        /\ x.event = "break" => held' = held \ {k}
  BY <1>1
<1>3. PICK last \in Nat :
        /\ \A j, n : \A ev \in {"make", "break"} :
             At(j, ev, n)' <=> At(j, ev, n) \/ (n = last /\ j = k /\ ev = x.event)
        /\ \A j, n : \A ev \in {"make", "break"} : At(j, ev, n) => n < last
  BY <1>2, SendEvents
<1>4. down' = down /\ x.event \in {"make", "break"}
  BY <1>1, <1>2 DEF Sends
<1>5. \A j, n : \A ev \in {"make", "break"} : j # k => (At(j, ev, n)' <=> At(j, ev, n))
  BY <1>3
<1>6. ASSUME NEW j \in Keys \ held'
      PROVE  (j \notin down /\ \A n \in Nat : ~At(j, "make", n)') \/ LastIs(j, "break", "make")'
  <2>1. CASE j # k
    <3>1. j \in Keys \ held
      BY <1>1, <1>2, <2>1
    <3> QED
      BY <1>5, <2>1, <3>1 DEF ReleasedOK, LastIs
  <2>2. CASE j = k
    <3>1. x.event = "break"
      BY <1>1, <1>2, <2>2
    <3>2. At(j, "break", last)' /\ \A m \in Nat : At(j, "make", m)' => m < last
      BY <1>3, <2>2, <3>1
    <3> QED
      BY <3>2 DEF LastIs
  <2> QED
    BY <2>1, <2>2
<1>7. ASSUME NEW j \in held', Together(j) = {j}
      PROVE  (j \in down /\ \A n \in Nat : ~At(j, "break", n)') \/ LastIs(j, "make", "break")'
  <2>1. CASE j # k
    <3>1. j \in held
      BY <1>1, <1>2, <2>1
    <3> QED
      BY <1>5, <1>7, <2>1, <3>1 DEF HeldOK, LastIs
  <2>2. CASE j = k
    <3>1. x.event = "make"
      BY <1>1, <1>2, <2>2
    <3>2. At(j, "make", last)' /\ \A m \in Nat : At(j, "break", m)' => m < last
      BY <1>3, <2>2, <3>1
    <3> QED
      BY <3>2 DEF LastIs
  <2> QED
    BY <2>1, <2>2
<1> QED
  BY <1>4, <1>6, <1>7 DEF ReleasedOK, HeldOK

(* The events of the key that is read, and of the others.                  *)
LEMMA GetLast ==
  ASSUME QueueOK, GetScancode, NEW j, NEW ev, NEW other, LastIs(j, ev, other)
  PROVE  \/ bytes[1].key = j /\ bytes[1].event = ev /\ \A m \in Nat : ~At(j, other, m)'
         \/ LastIs(j, ev, other)'
<1>1. PICK n \in Nat : At(j, ev, n) /\ \A m \in Nat : At(j, other, m) => m < n
  BY DEF LastIs
<1>2. \A i, e : \A m \in Nat : At(i, e, m)' <=> m # 0 /\ At(i, e, m + 1)
  BY GetEvents
<1>3. n # 0
  BY <1>1 DEF At
<1>4. \A m \in Nat : At(j, other, m)' => m # 0 /\ m + 1 < n
  BY <1>1, <1>2
<1>5. CASE n = 1
  <2>1. \A m \in Nat : ~(m + 1 < 1)
    OBVIOUS
  <2> QED
    BY <1>1, <1>4, <1>5, <2>1 DEF At
<1>6. CASE n # 1
  <2>1. n - 1 \in Nat /\ n - 1 # 0 /\ (n - 1) + 1 = n
    BY <1>3, <1>6
  <2>2. At(j, ev, n - 1)'
    BY <1>1, <1>2, <2>1
  <2>3. \A m \in Nat : m + 1 < n => m < n - 1
    OBVIOUS
  <2>4. \A m \in Nat : At(j, other, m)' => m < n - 1
    BY <1>4, <2>3
  <2>5. PICK p \in Nat : At(j, ev, p)' /\ \A m \in Nat : At(j, other, m)' => m < p
    BY <2>1, <2>2, <2>4
  <2> QED
    BY <2>5 DEF LastIs
<1> QED
  BY <1>5, <1>6

(* The driver reads an event, and the keys that are down follow.           *)
LEMMA GetKeys ==
  ASSUME QueueOK, FlagsOK, ReleasedOK, HeldOK, GetScancode
  PROVE  ReleasedOK' /\ HeldOK'
<1> DEFINE b == bytes[1]
           k == b.key
<1>1. b \in Events /\ k \in Keys /\ 1 \in 1 .. Len(bytes)
  BY HeadFacts, EventFacts DEF GetScancode
<1>2. ReadsPrefix(b) \/ ReadsMake(b) \/ ReadsBreak(b)
  BY GetCases
<1>3. held' = held
  BY DEF GetScancode
<1>4. \A j, ev : \A n \in Nat : At(j, ev, n)' => At(j, ev, n + 1)
  BY GetEvents
<1>5. At(k, b.event, 1)
  BY <1>1 DEF At
<1> HIDE DEF b
<1>6. ASSUME NEW j \in Keys \ held
      PROVE  (j \notin down' /\ \A n \in Nat : ~At(j, "make", n)') \/ LastIs(j, "break", "make")'
  <2>1. CASE j \notin down /\ \A n \in Nat : ~At(j, "make", n)
    <3>1. \A n \in Nat : ~At(j, "make", n)'
      BY <1>4, <2>1
    <3>2. j \notin down'
      <4>1. ~At(j, "make", 1)
        BY <2>1
      <4>2. b.event = "make" => k # j
        BY <1>5, <4>1
      <4> QED
        BY <1>2, <2>1, <4>2 DEF ReadsPrefix, ReadsMake, ReadsBreak
    <3> QED
      BY <3>1, <3>2
  <2>2. CASE LastIs(j, "break", "make")
    <3>1. CASE k = j /\ b.event = "break" /\ \A m \in Nat : ~At(j, "make", m)'
      <4>1. ReadsBreak(b)
        BY <1>2, <3>1 DEF ReadsPrefix, ReadsMake
      <4>2. j \notin down'
        BY <3>1, <4>1 DEF ReadsBreak, Together
      <4> QED
        BY <3>1, <4>2
    <3> QED
      BY <2>2, <3>1, GetLast DEF b
  <2> QED
    BY <2>1, <2>2 DEF ReleasedOK
<1>7. ASSUME NEW j \in held, Together(j) = {j}
      PROVE  (j \in down' /\ \A n \in Nat : ~At(j, "break", n)') \/ LastIs(j, "make", "break")'
  <2>0. j \in Keys
    BY DEF FlagsOK
  <2>1. CASE j \in down /\ \A n \in Nat : ~At(j, "break", n)
    <3>1. \A n \in Nat : ~At(j, "break", n)'
      BY <1>4, <2>1
    <3>2. j \in down'
      <4>1. ~At(j, "break", 1)
        BY <2>1
      <4>2. b.event = "break" => k # j
        BY <1>5, <4>1
      <4>3. k # j => j \notin Together(k)
        BY <1>1, <1>7, <2>0 DEF Together
      <4> QED
        BY <1>2, <2>1, <4>2, <4>3 DEF ReadsPrefix, ReadsMake, ReadsBreak
    <3> QED
      BY <3>1, <3>2
  <2>2. CASE LastIs(j, "make", "break")
    <3>1. CASE k = j /\ b.event = "make" /\ \A m \in Nat : ~At(j, "break", m)'
      <4>1. ReadsMake(b)
        BY <1>2, <3>1 DEF ReadsPrefix, ReadsBreak
      <4>2. j \in down'
        BY <3>1, <4>1 DEF ReadsMake
      <4> QED
        BY <3>1, <4>2
    <3> QED
      BY <2>2, <3>1, GetLast DEF b
  <2> QED
    BY <1>7, <2>1, <2>2 DEF HeldOK
<1> QED
  BY <1>3, <1>6, <1>7 DEF ReleasedOK, HeldOK

---------------------------------------------------------------------------
(* A key that is pressed, repeats or is released sends its code.           *)
LEMMA KeySends ==
  ASSUME QueueOK, NEW k \in Keys, NEW x \in {Make(k), Break(k)}, Send(Escaped(k, <<x>>))
  PROVE  Sends(k, x)
<1> DEFINE codes == Escaped(k, <<x>>)
<1>1. codes = IF k >= 128 THEN <<Prefix(k)>> \o <<x>> ELSE <<x>>
  BY DEF Escaped, Prefix
<1>2. codes \in Seq(Events)
  <2>1. x \in Events /\ (k >= 128 => Prefix(k) \in Events) /\ k \in 1 .. 211
    BY KeyNumbers DEF Events
  <2>2. <<x>> \in Seq(Events) /\ (k >= 128 => <<Prefix(k)>> \in Seq(Events))
    BY <2>1
  <2>3. CASE k >= 128
    <3> DEFINE p == <<Prefix(k)>>
               q == <<x>>
    <3>1. p \in Seq(Events) /\ q \in Seq(Events)
      BY <2>2, <2>3
    <3> HIDE DEF p, q
    <3>2. p \o q \in Seq(Events)
      BY <3>1
    <3> QED
      BY <1>1, <2>3, <3>2 DEF p, q
  <2>4. CASE ~(k >= 128)
    BY <1>1, <2>2, <2>4
  <2> QED
    BY <2>3, <2>4
<1> HIDE DEF codes
<1>3. /\ Len(bytes) + Len(codes) <= MaxBytes /\ bytes' = bytes \o codes
      /\ UNCHANGED <<down, shift, char>>
  BY DEF Send, codes
<1>4. Len(bytes \o codes) = Len(bytes) + Len(codes)
  BY <1>2 DEF QueueOK
<1> QED
  BY <1>1, <1>3, <1>4 DEF Sends

(* A key pressed, repeated or released sends its code.                     *)
LEMMA FingerFacts ==
  ASSUME QueueOK, NEW k \in Keys, PressOrRepeat(k) \/ Release(k)
  PROVE  \/ Sends(k, Make(k)) /\ held' = held \union {k}
         \/ Sends(k, Break(k)) /\ held' = held \ {k}
BY KeySends DEF PressOrRepeat, Release, MakeCode, BreakCode, Make, Break

(* No key is held and no byte waits.                                       *)
LEMMA InitInv ==
  ASSUME Init
  PROVE  IInv
<1>1. bytes \in Seq(Events) /\ Len(bytes) = 0 /\ (1 .. Len(bytes)) = {} /\ bytes = <<>>
  BY DEF Init
<1>2. QueueOK
  BY <1>1, KeyboardAssumption DEF Init, QueueOK
<1>3. FlagsOK
  BY DEF Init, FlagsOK
<1>4. ReleasedOK /\ HeldOK
  BY <1>1 DEF Init, ReleasedOK, HeldOK, At
<1> QED
  BY <1>2, <1>3, <1>4 DEF IInv

(* Each action in turn.                                                    *)
LEMMA StepInv ==
  ASSUME IInv, [Next]_vars
  PROVE  IInv'
<1> USE DEF IInv
<1>1. ASSUME NEW k \in Keys, PressOrRepeat(k) \/ Release(k) PROVE IInv'
  <2>1. \/ Sends(k, Make(k)) /\ held' = held \union {k}
        \/ Sends(k, Break(k)) /\ held' = held \ {k}
    BY <1>1, FingerFacts
  <2>2. QueueOK'
    BY <2>1, SendQueue
  <2>3. FlagsOK'
    BY <2>1 DEF Sends, FlagsOK, shiftKeys, ctlKeys, altKeys
  <2>4. ReleasedOK' /\ HeldOK'
    BY <2>1, SendKeys
  <2> QED
    BY <2>2, <2>3, <2>4
<1>2. CASE GetScancode
  BY <1>2, GetQueue, GetFlags, GetKeys
<1>3. CASE UNCHANGED vars
  BY <1>3 DEF vars, QueueOK, FlagsOK, ReleasedOK, HeldOK, LastIs, At, Follows,
              shiftKeys, ctlKeys, altKeys, Together
<1> QED
  BY <1>1, <1>2, <1>3 DEF Next

(* What waits is whole codes, of which the first may be half read; the     *)
(* flags are those of the keys; and what waits last decides of each key.   *)
THEOREM InvariantHolds == Spec => []IInv
<1>1. Init => IInv
  BY InitInv
<1>2. IInv /\ [Next]_vars => IInv'
  BY StepInv
<1> QED
  BY <1>1, <1>2, PTL DEF Spec

(* Every byte is one of a code the keyboard sends, every character that of *)
(* a key there is.                                                         *)
THEOREM TypeCorrect == Spec => []TypeOK
<1> DEFINE Bytes == [byte : 1 .. 224, key : Keys, event : {"prefix", "make", "break"}]
<1>1. Events \subseteq Bytes
  <2>1. ASSUME NEW k \in Keys PROVE Prefix(k) \in Bytes /\ Make(k) \in Bytes /\ Break(k) \in Bytes
    BY KeyNumbers DEF Prefix, Make, Break, Byte
  <2> QED
    BY <2>1 DEF Events
<1>2. IInv => TypeOK
  <2> SUFFICES ASSUME IInv PROVE TypeOK
    OBVIOUS
  <2> HIDE DEF Bytes
  <2>1. bytes \in Seq(Events)
    BY DEF IInv, QueueOK
  <2>2. bytes \in Seq(Bytes)
    BY <1>1, <2>1
  <2> QED
    BY <2>2 DEF IInv, QueueOK, FlagsOK, TypeOK, Bytes
<1> QED
  BY <1>2, InvariantHolds, PTL

(* Once every byte is read the flags are those of the keys that are held,  *)
(* and no escape is pending.                                               *)
THEOREM ModifiersFollowKeys == Spec => []ModifiersMatch
<1>1. ASSUME IInv, bytes = <<>>
      PROVE  /\ "E0ESC" \notin shift /\ down \subseteq held
             /\ \A k \in held \ down : Together(k) # {k}
  <2>1. \A j, ev, n : ~At(j, ev, n)
    <3>1. (1 .. Len(bytes)) = {}
      BY <1>1
    <3> QED
      BY <3>1 DEF At
  <2>2. \A j, ev, other : ~LastIs(j, ev, other)
    BY <2>1 DEF LastIs
  <2>3. "E0ESC" \notin shift
    BY <1>1 DEF IInv, QueueOK
  <2>4. down \subseteq held
    BY <1>1, <2>2 DEF IInv, ReleasedOK, FlagsOK
  <2>5. \A k \in held \ down : Together(k) # {k}
    BY <1>1, <2>2 DEF IInv, HeldOK
  <2> QED
    BY <2>3, <2>4, <2>5
<1>2. IInv => ModifiersMatch
  BY <1>1 DEF IInv, FlagsOK, ModifiersMatch
<1> QED
  BY <1>2, InvariantHolds, PTL

---------------------------------------------------------------------------
(* Keys with a character have no modifier, and one kind of character.      *)
LEMMA KindFacts ==
  ASSUME NEW k \in Keys
  PROVE  /\ k \in letters \/ k \in symbols \/ k \in cursors => shiftcode(k) = {} /\ togglecode(k) = {}
         /\ k \in letters => k \in ctlmap /\ k \notin symbols /\ k \notin cursors
         /\ k \in symbols => k \notin cursors
         /\ k \in ctlmap => k \in letters \/ k \in symbols
<1>1. k \in 1 .. 211
  BY KeyNumbers
<1>2. k \in letters \/ k \in symbols \/ k \in cursors => shiftcode(k) = {}
  BY <1>1 DEF letters, symbols, cursors, shiftcode
<1>3. k \in letters \/ k \in symbols \/ k \in cursors => togglecode(k) = {}
  BY <1>1 DEF letters, symbols, cursors, togglecode
<1>4. k \in letters => k \in ctlmap /\ k \notin symbols /\ k \notin cursors
  BY <1>1 DEF letters, symbols, cursors, ctlmap
<1>5. k \in symbols => k \notin cursors
  BY <1>1 DEF symbols, cursors
<1>6. k \in ctlmap => k \in letters \/ k \in symbols
  BY <1>1 DEF letters, symbols, ctlmap
<1> QED
  BY <1>2, <1>3, <1>4, <1>5, <1>6

(* What the three maps hold for each kind of key.                          *)
LEMMA EntryFacts ==
  ASSUME NEW k \in Keys, NEW map \in {"ctlmap", "shiftmap", "normalmap"}
  PROVE  /\ k \in cursors => Entry(map, k) = "cursor"
         /\ map = "ctlmap" /\ k \in ctlmap => Entry(map, k) = "control"
         /\ map = "shiftmap" /\ k \in letters => Entry(map, k) = "upper"
         /\ map = "shiftmap" /\ k \in symbols => Entry(map, k) = "shifted"
         /\ map = "normalmap" /\ k \in letters => Entry(map, k) = "lower"
         /\ map = "normalmap" /\ k \in symbols => Entry(map, k) = "plain"
         /\ map = "ctlmap" /\ k \notin ctlmap /\ k \notin cursors => Entry(map, k) = "none"
         /\ k \notin cursors /\ k \notin letters /\ k \notin symbols => Entry(map, k) = "none"
BY KindFacts, Zenon DEF Entry

(* A character is the one promised for the keys that are down.             *)
LEMMA FormFacts ==
  ASSUME FlagsOK, NEW k \in Keys
  PROVE  FormOf(k, FlagsWith(k)) = Promise!Form(k)
<1> DEFINE flags == FlagsWith(k)
           ctl   == Promise!Holds(ctlKeys)
           shf   == Promise!Holds(shiftKeys)
           caps  == "CAPSLOCK" \in shift
<1>1. ("CTL" \in shift <=> ctl) /\ ("SHIFT" \in shift <=> shf)
  BY DEF FlagsOK, Promise!Holds
<1>2. CASE k \in letters \/ k \in symbols \/ k \in cursors
  <2>1. shiftcode(k) = {} /\ togglecode(k) = {}
    BY <1>2, KindFacts
  <2>2. flags = shift \ {"E0ESC"}
    BY <2>1 DEF FlagsWith, Pressed
  <2>3. ("CTL" \in flags <=> ctl) /\ ("SHIFT" \in flags <=> shf) /\ ("CAPSLOCK" \in flags <=> caps)
    BY <1>1, <2>2
  <2> HIDE DEF flags, ctl, shf, caps
  <2>4. Map(flags) = IF ctl THEN "ctlmap" ELSE IF shf THEN "shiftmap" ELSE "normalmap"
    BY <2>3, Zenon DEF Map
  <2>5. Map(flags) \in {"ctlmap", "shiftmap", "normalmap"}
    BY <2>4
  <2>6. FormOf(k, flags) =
          IF caps /\ Entry(Map(flags), k) = "lower" THEN "upper"
          ELSE IF caps /\ Entry(Map(flags), k) = "upper" THEN "lower" ELSE Entry(Map(flags), k)
    BY <2>3 DEF FormOf, Swap
  <2>7. CASE k \in cursors
    <3>1. Entry(Map(flags), k) = "cursor"
      BY <2>5, <2>7, EntryFacts
    <3>2. Promise!Form(k) = "cursor"
      BY <2>7, KindFacts, Zenon DEF Promise!Form
    <3> QED
      BY <2>6, <3>1, <3>2 DEF flags
  <2>8. CASE k \in letters
    <3>1. k \in ctlmap /\ k \notin cursors /\ k \notin symbols
      BY <2>8, KindFacts
    <3>2. CASE ctl
      <4>1. Entry(Map(flags), k) = "control"
        BY <2>4, <2>5, <3>1, <3>2, EntryFacts
      <4>2. Promise!Form(k) = "control"
        BY <3>1, <3>2, Zenon DEF Promise!Form, ctl
      <4> QED
        BY <2>6, <4>1, <4>2 DEF flags
    <3>3. CASE ~ctl /\ shf
      <4>1. Entry(Map(flags), k) = "upper"
        BY <2>4, <2>5, <2>8, <3>3, EntryFacts
      <4>2. Promise!Form(k) = IF shf # caps THEN "upper" ELSE "lower"
        BY <2>8, <3>1, <3>3, Zenon DEF Promise!Form, ctl, shf, caps
      <4>3. caps \in BOOLEAN /\ shf \in BOOLEAN
        BY DEF caps, shf, Promise!Holds
      <4> QED
        BY <2>6, <3>3, <4>1, <4>2, <4>3 DEF flags
    <3>4. CASE ~ctl /\ ~shf
      <4>1. Entry(Map(flags), k) = "lower"
        BY <2>4, <2>5, <2>8, <3>4, EntryFacts
      <4>2. Promise!Form(k) = IF shf # caps THEN "upper" ELSE "lower"
        BY <2>8, <3>1, <3>4, Zenon DEF Promise!Form, ctl, shf, caps
      <4>3. caps \in BOOLEAN /\ shf \in BOOLEAN
        BY DEF caps, shf, Promise!Holds
      <4> QED
        BY <2>6, <3>4, <4>1, <4>2, <4>3 DEF flags
    <3> QED
      BY <3>2, <3>3, <3>4
  <2>9. CASE k \in symbols
    <3>1. k \notin cursors /\ k \notin letters
      BY <2>9, KindFacts
    <3>2. CASE ctl /\ k \in ctlmap
      <4>1. Entry(Map(flags), k) = "control"
        BY <2>4, <2>5, <3>2, EntryFacts
      <4>2. Promise!Form(k) = "control"
        BY <3>1, <3>2, Zenon DEF Promise!Form, ctl
      <4> QED
        BY <2>6, <4>1, <4>2 DEF flags
    <3>3. CASE ctl /\ k \notin ctlmap
      <4>1. Entry(Map(flags), k) = "none"
        BY <2>4, <2>5, <3>1, <3>3, EntryFacts
      <4>2. Promise!Form(k) = "none"
        BY <3>1, <3>3, Zenon DEF Promise!Form, ctl
      <4> QED
        BY <2>6, <4>1, <4>2 DEF flags
    <3>4. CASE ~ctl /\ shf
      <4>1. Entry(Map(flags), k) = "shifted"
        BY <2>4, <2>5, <2>9, <3>4, EntryFacts
      <4>2. Promise!Form(k) = "shifted"
        BY <2>9, <3>1, <3>4, Zenon DEF Promise!Form, ctl, shf
      <4> QED
        BY <2>6, <4>1, <4>2 DEF flags
    <3>5. CASE ~ctl /\ ~shf
      <4>1. Entry(Map(flags), k) = "plain"
        BY <2>4, <2>5, <2>9, <3>5, EntryFacts
      <4>2. Promise!Form(k) = "plain"
        BY <2>9, <3>1, <3>5, Zenon DEF Promise!Form, ctl, shf
      <4> QED
        BY <2>6, <4>1, <4>2 DEF flags
    <3> QED
      BY <3>2, <3>3, <3>4, <3>5
  <2> QED
    BY <1>2, <2>7, <2>8, <2>9
<1>3. CASE k \notin letters /\ k \notin symbols /\ k \notin cursors
  <2>1. Map(flags) \in {"ctlmap", "shiftmap", "normalmap"}
    BY DEF Map
  <2>2. Entry(Map(flags), k) = "none"
    BY <1>3, <2>1, EntryFacts
  <2>3. FormOf(k, flags) = "none"
    BY <2>2 DEF FormOf, Swap
  <2>4. k \notin ctlmap
    BY <1>3, KindFacts
  <2>5. Promise!Form(k) = "none"
    BY <1>3, <2>4, Zenon DEF Promise!Form
  <2> QED
    BY <2>3, <2>5
<1> QED
  BY <1>2, <1>3

(* A key goes down, a key goes up, or nothing the reader sees happens.     *)
LEMMA MakeIsKeyDown ==
  ASSUME FlagsOK, NEW b, b.key \in Keys, ReadsMake(b)
  PROVE  Promise!KeyDown(b.key)
<1> DEFINE k == b.key
<1>1. down' = down \union {k} /\ shift' = FlagsWith(k)
  BY DEF ReadsMake
<1>2. char' = IF Promise!Form(k) = "none" THEN char ELSE [key |-> k, form |-> Promise!Form(k)]
  BY FormFacts DEF ReadsMake
<1>3. ("CAPSLOCK" \in shift') = (IF k \in capsKeys THEN ~("CAPSLOCK" \in shift) ELSE "CAPSLOCK" \in shift)
  <2>1. /\ shiftcode(k) \in {{"SHIFT"}, {"CTL"}, {"ALT"}, {}}
        /\ togglecode(k) \in {{"CAPSLOCK"}, {"NUMLOCK"}, {"SCROLLLOCK"}, {}}
    BY TableFacts
  <2>2. CASE k \in capsKeys
    <3>1. togglecode(k) = {"CAPSLOCK"}
      BY <2>2 DEF capsKeys
    <3>2. "CAPSLOCK" \in shift' <=> "CAPSLOCK" \notin shift
      BY <1>1, <2>1, <3>1 DEF FlagsWith, Pressed
    <3> QED
      BY <2>2, <3>2
  <2>3. CASE k \notin capsKeys
    <3>1. togglecode(k) # {"CAPSLOCK"}
      BY <2>3 DEF capsKeys
    <3>2. "CAPSLOCK" \in shift' <=> "CAPSLOCK" \in shift
      BY <1>1, <2>1, <3>1 DEF FlagsWith, Pressed
    <3> QED
      BY <2>3, <3>2
  <2> QED
    BY <2>2, <2>3
<1> QED
  BY <1>1, <1>2, <1>3 DEF Promise!KeyDown

(* A break code is a key that goes up.                                     *)
LEMMA BreakIsKeyUp ==
  ASSUME NEW b, b.key \in Keys, ReadsBreak(b)
  PROVE  Promise!KeyUp(b.key)
<1> DEFINE k == b.key
<1>1. /\ down' = down \ Together(k) /\ char' = char
      /\ shift' = shift \ (shiftcode(k) \union {"E0ESC"})
  BY DEF ReadsBreak
<1>2. \A j : shiftcode(j) \in {{"SHIFT"}, {"CTL"}, {"ALT"}, {}}
  BY TableFacts
<1>3. ("CAPSLOCK" \in shift') = ("CAPSLOCK" \in shift)
  BY <1>1, <1>2
<1> HIDE DEF k
<1>4. k \in Keys
  BY DEF k
<1>5. Promise!Together(k) = Together(k)
  <2>1. CASE shiftcode(k) = {"SHIFT"}
    <3>1. Together(k) = shiftKeys /\ k \in shiftKeys /\ k \notin ctlKeys /\ k \notin altKeys
      BY <1>2, <1>4, <2>1 DEF Together, shiftKeys, ctlKeys, altKeys
    <3> QED
      BY <3>1, Zenon DEF Promise!Together
  <2>2. CASE shiftcode(k) = {"CTL"}
    <3>1. Together(k) = ctlKeys /\ k \in ctlKeys /\ k \notin shiftKeys /\ k \notin altKeys
      BY <1>2, <1>4, <2>2 DEF Together, shiftKeys, ctlKeys, altKeys
    <3> QED
      BY <3>1, Zenon DEF Promise!Together
  <2>3. CASE shiftcode(k) = {"ALT"}
    <3>1. Together(k) = altKeys /\ k \in altKeys /\ k \notin shiftKeys /\ k \notin ctlKeys
      BY <1>2, <1>4, <2>3 DEF Together, shiftKeys, ctlKeys, altKeys
    <3> QED
      BY <3>1, Zenon DEF Promise!Together
  <2>4. CASE shiftcode(k) = {}
    <3>1. Together(k) = {k} /\ k \notin shiftKeys /\ k \notin ctlKeys /\ k \notin altKeys
      BY <1>4, <2>4 DEF Together, shiftKeys, ctlKeys, altKeys
    <3> QED
      BY <3>1, Zenon DEF Promise!Together
  <2> QED
    BY <1>2, <2>1, <2>2, <2>3, <2>4
<1> QED
  BY <1>1, <1>3, <1>5 DEF Promise!KeyUp, k

(* What the reader of the characters sees.                                 *)
Seen == <<down, "CAPSLOCK" \in shift, char>>

(* Every step is one of the promise's, or none.                            *)
LEMMA StepKeepsPromise ==
  ASSUME IInv, [Next]_vars
  PROVE  Promise!Next \/ UNCHANGED Seen
<1>1. ASSUME NEW k \in Keys, PressOrRepeat(k) \/ Release(k) PROVE UNCHANGED Seen
  BY <1>1 DEF PressOrRepeat, Release, Send, Seen
<1>2. CASE GetScancode
  <2> DEFINE b == bytes[1]
  <2>1. b.key \in Keys
    BY <1>2, HeadFacts, EventFacts DEF GetScancode, IInv
  <2>2. b.key \in Promise!AllKeys
    BY <2>1 DEF Promise!AllKeys
  <2>3. ReadsPrefix(b) \/ ReadsMake(b) \/ ReadsBreak(b)
    BY <1>2, GetCases DEF IInv
  <2> HIDE DEF b
  <2>4. CASE ReadsPrefix(b)
    <3>1. "CAPSLOCK" \in shift' <=> "CAPSLOCK" \in shift
      BY <2>4 DEF ReadsPrefix
    <3> QED
      BY <2>4, <3>1 DEF ReadsPrefix, Seen
  <2>5. CASE ReadsMake(b)
    BY <2>1, <2>2, <2>5, MakeIsKeyDown DEF IInv, Promise!Next
  <2>6. CASE ReadsBreak(b)
    BY <2>1, <2>2, <2>6, BreakIsKeyUp DEF Promise!Next
  <2> QED
    BY <2>3, <2>4, <2>5, <2>6
<1>3. CASE UNCHANGED vars
  BY <1>3 DEF vars, Seen
<1> QED
  BY <1>1, <1>2, <1>3 DEF Next

(* The bytes the driver reads make up the events of ModifierKeys, and its  *)
(* characters are those promised there.                                    *)
THEOREM DriverKeepsPromise == Spec => KeysSpec
<1>1. Init => Promise!Init
  BY DEF Init, Promise!Init, NoChar
<1>2. IInv /\ [Next]_vars => [Promise!Next]_Seen
  BY StepKeepsPromise
<1> QED
  BY <1>1, <1>2, InvariantHolds, PTL DEF Spec, KeysSpec, Promise!Spec, Seen
=============================================================================
