------------------------------ MODULE Console ------------------------------
(***************************************************************************)
(* printf of stdio.c down to the serial port: the loop over the format,    *)
(* printint, init_serial, write_serial and the 16550 that sends the bytes. *)
(* The main thread is level 0; the handler that interrupts level k is      *)
(* level k + 1, and returns or halts.  Bytes are tagged with their level.  *)
(***************************************************************************)
EXTENDS Integers, Sequences, FiniteSets

CONSTANTS
  Word,           (* values of an unsigned int: 2^32                          *)
  Buffer,         (* sizeof buf of printint: 16                               *)
  IntMax,         (* INT_MAX, as far as the length of the output goes         *)
  FifoDepth,      (* bytes the port's transmit FIFO holds: 16                 *)
  Nesting,        (* how deep handlers nest                                   *)
  Calls,          (* level -> calls of printf: a format and its arguments     *)
  Garbage,        (* digits that printint prints with its locals overwritten  *)
  MaxHandlers     (* bound: handlers that run                                 *)

(* The FIFO holds a byte of every level.                                   *)
ASSUME ConsoleAssumption ==
  /\ Word \in Nat \ {0} /\ Buffer \in 2 .. Word /\ IntMax \in Nat
  /\ Nesting \in Nat /\ MaxHandlers \in Nat
  /\ FifoDepth \in Nat /\ FifoDepth > Nesting
  /\ Garbage \subseteq Seq(STRING)

Levels == 0 .. Nesting

(* What va_arg may return: a character, a string or an int.                *)
Argument ==
  [char : STRING, string : Seq(STRING), number : -(Word \div 2) .. Word - (Word \div 2) - 1]

(* args is what va_arg would return in turn, passed or not: long enough,   *)
(* as it takes two characters of a format to ask for one.                  *)
ASSUME CallsAssumption ==
  \A k \in Levels : \A c \in Calls[k] :
    /\ c.format \in Seq(STRING) /\ c.args \in Seq(Argument)
    /\ Len(c.format) <= 2 * Len(c.args) + 1

(* base * ... * base                                                       *)
Power(base) ==
  LET power[n \in 0 .. Word] == IF n = 0 THEN 1 ELSE base * power[n - 1]
  IN  power

(* buf is long enough for an int in base 10 with its sign, and in base 16. *)
ASSUME BufferAssumption ==
  Word <= Power(10)[Buffer - 1] /\ Word <= Power(16)[Buffer]

VARIABLES
  present,      (* there is a port behind COM_PORT_1                          *)
  fifo,         (* bytes written and not yet sent                             *)
  depth,        (* how many fit: 1 while the FIFO is disabled                 *)
  loopback,     (* the port receives what it sends                            *)
  received,     (* bytes it received so                                       *)
  wire,         (* bytes that left it                                         *)
  serial_initialized,
  level,        (* the level that has the CPU                                 *)
  handlers,     (* handlers that have run                                     *)
  pc,           (* level -> what it does next                                 *)
  call          (* level -> its call of printf                                *)

port == <<present, depth, loopback, serial_initialized>>
cpu  == <<level, handlers>>
vars == <<port, cpu, fifo, received, wire, pc, call>>

Stage == {"init", "test", "print", "send", "return", "idle", "lost"}

Echo == "echo"    (* 0xAE *)

Idle == [format |-> <<>>, args |-> <<>>, pending |-> <<>>, written |-> 0,
         printed |-> <<>>, spilt |-> FALSE, of |-> <<>>, halts |-> FALSE]

(* terminal_initialize calls send_to_serial.                               *)
Init ==
  /\ present \in BOOLEAN
  /\ fifo = <<>> /\ depth = 1 /\ loopback = FALSE /\ received = <<>>
  /\ wire = <<>> /\ serial_initialized = FALSE
  /\ level = 0 /\ handlers = 0
  /\ pc = [k \in Levels |-> IF k = 0 THEN "init" ELSE "idle"]
  /\ call = [k \in Levels |-> Idle]

---------------------------------------------------------------------------
(* printint                                                                *)
Digit == <<"0", "1", "2", "3", "4", "5", "6", "7", "8", "9",
           "A", "B", "C", "D", "E", "F">>

(* Mutant of Digits: the loop tests x before it divides.                   *)
DigitsUntilZero(number, base) ==
  LET digits[x \in 0 .. Word] ==
        IF x = 0 THEN <<Digit[1]>>
                 ELSE Append(digits[x \div base], Digit[(x % base) + 1])
  IN  digits[number]

(* The digits in buf, as the second loop prints them: last one first.      *)
Digits(number, base) ==
  LET digits[x \in 0 .. Word] ==
        LET last == Digit[(x % base) + 1]
        IN  IF x \div base = 0 THEN <<last>> ELSE Append(digits[x \div base], last)
  IN  digits[number]

(* x is unsigned: -xx of the smallest number is that number again.         *)
PrintInt(xx, base, sgn) ==
  IF sgn /\ xx < 0 THEN <<"-">> \o Digits((-xx) % Word, base)
                   ELSE Digits(xx % Word, base)

(* The conversions of printf; an argument is what va_arg reads, as a       *)
(* character, a string or a number.                                        *)
Conversions == {"c", "s", "d", "x", "b"}

Converted(conversion, arg) ==
  CASE conversion = "c" -> <<arg.char>>
    [] conversion = "s" -> arg.string
    [] conversion = "d" -> PrintInt(arg.number, 10, TRUE)
    [] conversion = "x" -> <<"0", "x">> \o PrintInt(arg.number, 16, FALSE)
    [] conversion = "b" -> <<"0", "b">> \o PrintInt(arg.number, 2, FALSE)

(* The number does not fit buf (its prefix does not go through it), and    *)
(* the frame behind buf is written.                                        *)
Spills(conversion, text) ==
  \/ conversion = "d" /\ Len(text) > Buffer
  \/ conversion \in {"x", "b"} /\ Len(text) - 2 > Buffer

(* What may be printed for the text: base lies behind buf in the           *)
(* unoptimized build, and the digits after it are of another base.         *)
Said(conversion, text) ==
  IF Spills(conversion, text)
    THEN {text} \union {(IF conversion = "d" THEN <<>> ELSE <<"0", conversion>>) \o garbage :
                          garbage \in Garbage}
    ELSE {text}

---------------------------------------------------------------------------
(* printf in level k, which has the CPU.                                   *)
Runs(k, at) == level = k /\ pc[k] = at

(* written is a size_t: once past INT_MAX, maxrem is huge.                 *)
TooLong(written, amount) == written <= IntMax /\ IntMax - written < amount

(* A piece of the format: its text, what remains, whether maxrem was       *)
(* tested before it is printed, and whether a frame was written: then      *)
(* printf goes on, or the level is lost.                                   *)
Piece(k, text, format, args, tested, spilt) ==
  IF tested /\ TooLong(call[k].written, Len(text))
    THEN /\ call' = [call EXCEPT ![k].written = -1]
         /\ pc' = [pc EXCEPT ![k] = "return"]
    ELSE /\ call' = [call EXCEPT ![k].format = format, ![k].args = args,
                                 ![k].pending = text, ![k].written = @ + Len(text),
                                 ![k].spilt = @ \/ spilt]
         /\ \E next \in IF spilt THEN {"print", "lost"} ELSE {"print"} :
              pc' = [pc EXCEPT ![k] = next]

Literal(format) == format[1] # "%" \/ (Len(format) > 1 /\ format[2] = "%")

(* From the first character up to the next "%".                            *)
Run(format) ==
  SubSeq(format, 1, CHOOSE n \in 1 .. Len(format) :
                      /\ n = Len(format) \/ format[n + 1] = "%"
                      /\ \A m \in 2 .. n : format[m] # "%")

(* Mutant of Unescaped: the first "%" of "%%" is not skipped.              *)
UnescapedTwice(format) == format

Unescaped(format) == IF format[1] = "%" THEN Tail(format) ELSE format

LiteralPiece(k) ==
  LET format == Unescaped(call[k].format)
      text   == Run(format)
  IN  Piece(k, text, SubSeq(format, Len(text) + 1, Len(format)), call[k].args, TRUE, FALSE)

Converts(format) == Len(format) > 1 /\ format[2] \in Conversions

ConversionPiece(k) ==
  LET format == call[k].format
      text   == Converted(format[2], Head(call[k].args))
  IN  \E said \in Said(format[2], text) :
        Piece(k, said, SubSeq(format, 3, Len(format)), Tail(call[k].args),
              format[2] \in {"c", "s"}, Spills(format[2], text))

(* Anything else is printed as it stands, up to the end.                   *)
Verbatim(k) == Piece(k, call[k].format, <<>>, call[k].args, TRUE, FALSE)

NextPiece(k) ==
  /\ Runs(k, "print") /\ call[k].pending = <<>> /\ call[k].format # <<>>
  /\ IF Literal(call[k].format) THEN LiteralPiece(k)
     ELSE IF Converts(call[k].format) THEN ConversionPiece(k)
     ELSE Verbatim(k)
  /\ UNCHANGED <<port, cpu, fifo, received, wire>>

EndOfFormat(k) ==
  /\ Runs(k, "print") /\ call[k].pending = <<>> /\ call[k].format = <<>>
  /\ pc' = [pc EXCEPT ![k] = "return"]
  /\ UNCHANGED <<port, cpu, fifo, received, wire, call>>

---------------------------------------------------------------------------
(* Mutant of is_transmit_empty: it tests the bit of a received byte.       *)
is_received == received # <<>>

(* Bit 5 of the line status: the FIFO is empty.  All ones without a port.  *)
is_transmit_empty == ~present \/ fifo = <<>>

(* Mutant of Poll: print goes past the end of the text.                    *)
PollPastEnd(k) ==
  /\ Runs(k, "print")
  /\ is_transmit_empty
  /\ pc' = [pc EXCEPT ![k] = "send"]
  /\ UNCHANGED <<port, cpu, fifo, received, wire, call>>

(* write_serial: the loop ends, and then the byte is sent.                 *)
Poll(k) ==
  /\ Runs(k, "print") /\ call[k].pending # <<>>
  /\ is_transmit_empty
  /\ pc' = [pc EXCEPT ![k] = "send"]
  /\ UNCHANGED <<port, cpu, fifo, received, wire, call>>

Byte(k, char) == [level |-> k, char |-> char]

(* A byte that finds the FIFO full is lost.                                *)
Outb(byte) ==
  fifo' = IF present /\ Len(fifo) < depth THEN Append(fifo, byte) ELSE fifo

Send(k) ==
  /\ Runs(k, "send")
  /\ Outb(Byte(k, Head(call[k].pending)))
  /\ call' = [call EXCEPT ![k].pending = Tail(@),
                          ![k].printed = Append(@, Head(call[k].pending))]
  /\ pc' = [pc EXCEPT ![k] = "print"]
  /\ UNCHANGED <<port, cpu, received, wire>>

---------------------------------------------------------------------------
(* Mutant of InitSerial: the FIFO stays disabled.                          *)
InitSerialNoFifo ==
  /\ Runs(0, "init")
  /\ loopback' = TRUE /\ received' = <<>>
  /\ fifo' = IF present THEN <<Byte(0, Echo)>> ELSE <<>>
  /\ pc' = [pc EXCEPT ![0] = "test"]
  /\ UNCHANGED <<present, depth, serial_initialized, cpu, wire, call>>

(* init_serial: the speed, the FIFO, loopback and the byte to test it.     *)
InitSerial ==
  /\ Runs(0, "init")
  /\ depth' = FifoDepth
  /\ loopback' = TRUE /\ received' = <<>>
  /\ fifo' = IF present THEN <<Byte(0, Echo)>> ELSE <<>>
  /\ pc' = [pc EXCEPT ![0] = "test"]
  /\ UNCHANGED <<present, serial_initialized, cpu, wire, call>>

(* The line it prints whatever init_serial returned.                       *)
SayOk == call' = [call EXCEPT ![0] = [Idle EXCEPT !.pending = <<"o", "k", "\n">>]]

(* Mutant of TestSerial: a healthy port is left in loopback.               *)
TestSerialOnly ==
  /\ Runs(0, "test")
  /\ LET healthy == received # <<>>
     IN  serial_initialized' = healthy /\ UNCHANGED loopback
  /\ received' = <<>>
  /\ SayOk
  /\ pc' = [pc EXCEPT ![0] = "print"]
  /\ UNCHANGED <<present, depth, cpu, fifo, wire>>

(* The echo is read at once: a port that has not sent it yet fails.        *)
TestSerial ==
  /\ Runs(0, "test")
  /\ LET healthy == received # <<>>
     IN  serial_initialized' = healthy /\ loopback' = (loopback /\ ~healthy)
  /\ received' = <<>>
  /\ SayOk
  /\ pc' = [pc EXCEPT ![0] = "print"]
  /\ UNCHANGED <<present, depth, cpu, fifo, wire>>

(* The 16550 sends a byte.                                                 *)
Transmit ==
  /\ fifo # <<>>
  /\ fifo' = Tail(fifo)
  /\ IF loopback THEN received' = <<Head(fifo)>> /\ UNCHANGED wire
                 ELSE wire' = Append(wire, Head(fifo)) /\ UNCHANGED received
  /\ UNCHANGED <<port, cpu, pc, call>>

---------------------------------------------------------------------------
Printf(k, c, halts) ==
  /\ call' = [call EXCEPT ![k] = [Idle EXCEPT !.format = c.format, !.args = c.args,
                                              !.of = <<c>>, !.halts = halts]]
  /\ pc' = [pc EXCEPT ![k] = "print"]

(* send_to_serial has returned; print_to_serial is set from here on.       *)
MainPrints ==
  /\ Runs(0, "return") /\ call[0].of = <<>>
  /\ \E c \in Calls[0] : Printf(0, c, FALSE)
  /\ UNCHANGED <<port, cpu, fifo, received, wire>>

(* An interrupt, whose handler prints; an exception, in a handler too,     *)
(* prints a dump and halts.                                                *)
HandlerPrints ==
  /\ level < Nesting /\ handlers < MaxHandlers
  /\ pc[0] \in {"print", "send", "return"} /\ call[0].of # <<>>
  /\ level' = level + 1 /\ handlers' = handlers + 1
  /\ \E c \in Calls[level + 1], halts \in BOOLEAN :
       /\ level > 0 => halts
       /\ Printf(level + 1, c, halts)
  /\ UNCHANGED <<port, fifo, received, wire>>

HandlerReturns(k) ==
  /\ k > 0 /\ Runs(k, "return") /\ ~call[k].halts
  /\ level' = k - 1
  /\ pc' = [pc EXCEPT ![k] = "idle"]
  /\ UNCHANGED <<port, handlers, fifo, received, wire, call>>

Thread(k) == NextPiece(k) \/ EndOfFormat(k) \/ Poll(k) \/ Send(k) \/ HandlerReturns(k)

Next == \/ \E k \in Levels : Thread(k)
        \/ InitSerial \/ TestSerial \/ MainPrints \/ HandlerPrints
        \/ Transmit

(* A level that has the CPU goes on, the port sends, and main starts up.   *)
Fairness ==
  /\ \A k \in Levels : WF_vars(Thread(k))
  /\ WF_vars(InitSerial) /\ WF_vars(TestSerial) /\ WF_vars(MainPrints)
  /\ WF_vars(Transmit)

Spec == Init /\ [][Next]_vars /\ Fairness
---------------------------------------------------------------------------
(* The port, the CPU and the calls keep their types; a level that sends has*)
(* a byte to send.                                                         *)
TypeOK ==
  /\ depth \in {1, FifoDepth} /\ Len(fifo) <= depth
  /\ Len(received) <= 1
  /\ present \in BOOLEAN /\ loopback \in BOOLEAN /\ serial_initialized \in BOOLEAN
  /\ level \in Levels /\ handlers \in 0 .. MaxHandlers
  /\ pc \in [Levels -> Stage]
  /\ \A k \in Levels : /\ pc[k] = "send" => call[k].pending # <<>>
                       /\ pc[k] = "init" => k = 0

(* write_serial tests the port and writes later, and handlers write in     *)
(* between: still whoever writes finds room.                               *)
SendFindsRoom ==
  present => \A k \in Levels : pc[k] = "send" => Len(fifo) < depth

(* The last bytes of level k are the text: its n-th character is the byte  *)
(* of that level that as many follow as follow in the text.                *)
EndsWith(bytes, k, text) ==
  LET ofLevel == {q \in DOMAIN bytes : bytes[q].level = k}
  IN  \A n \in DOMAIN text : \E q \in ofLevel :
        /\ bytes[q].char = text[n]
        /\ Cardinality({r \in ofLevel : r > q}) = Len(text) - n

(* Once init_serial has returned true, what every level printed is on the  *)
(* wire or on its way, complete and in its order, whoever interrupted whom.*)
Delivered ==
  serial_initialized =>
    \A k \in Levels :
      call[k].of # <<>> => EndsWith(wire \o fifo, k, call[k].printed)

---------------------------------------------------------------------------
(* What a format promises, character by character.                         *)
Magnitude(conversion, n) ==
  IF conversion = "d" /\ n < 0 THEN -n ELSE n % Word

Base(conversion) == CASE conversion = "d" -> 10 [] conversion = "x" -> 16
                      [] conversion = "b" -> 2

Places(n, base) == CHOOSE p \in 1 .. Word : /\ n < Power(base)[p]
                                            /\ p > 1 => n >= Power(base)[p - 1]

Numeral(n, base) ==
  LET places == Places(n, base)
  IN  [p \in 1 .. places |-> Digit[((n \div Power(base)[places - p]) % base) + 1]]

Shown(conversion, arg) ==
  CASE conversion = "c" -> <<arg.char>>
    [] conversion = "s" -> arg.string
    [] conversion \in {"d", "x", "b"} ->
         (CASE conversion = "d" -> IF arg.number < 0 THEN <<"-">> ELSE <<>>
            [] conversion = "x" -> <<"0", "x">>
            [] conversion = "b" -> <<"0", "b">>)
         \o Numeral(Magnitude(conversion, arg.number), Base(conversion))

(* The last n of a sequence.                                               *)
End(s, n) == SubSeq(s, Len(s) - n + 1, Len(s))

(* What the last n characters of a format print with the last m arguments. *)
Renders(format, args) ==
  LET renders[n \in 0 .. Len(format)] ==
        LET rest == End(format, n)
        IN  [m \in 0 .. Len(args) |->
              IF n = 0 THEN <<>>
              ELSE IF rest[1] # "%" THEN <<rest[1]>> \o renders[n - 1][m]
              ELSE IF n = 1 THEN rest
              ELSE IF rest[2] = "%" THEN <<"%">> \o renders[n - 2][m]
              ELSE IF rest[2] \in Conversions /\ m > 0
                THEN Shown(rest[2], args[Len(args) - m + 1]) \o renders[n - 2][m - 1]
              ELSE rest]
  IN  renders

Texts == [c \in UNION {Calls[k] : k \in Levels} |->
            Renders(c.format, c.args)[Len(c.format)][Len(c.args)]]

(* Every call that wrote no number behind buf prints what its format       *)
(* promises, in order and no further than its result says: it returns the  *)
(* number of characters, or -1 when it stopped before the end because the  *)
(* count would pass INT_MAX.                                               *)
PrintsFormat ==
  \A k \in Levels : call[k].of # <<>> /\ ~call[k].spilt =>
    LET text    == Texts[call[k].of[1]]
        printed == call[k].printed
    IN  /\ Len(printed) <= Len(text) /\ printed = SubSeq(text, 1, Len(printed))
        /\ pc[k] = "return" =>
             IF call[k].written = -1 THEN Len(printed) < Len(text) /\ Len(text) > IntMax
             ELSE printed = text /\ call[k].written = Len(text)

(* Numbers in base 10 and 16, the smallest one with its sign included, fit *)
(* buf: only %b can write behind it.                                       *)
OnlyBinarySpills ==
  \A k \in Levels : call[k].spilt =>
    \E n \in DOMAIN call[k].of[1].format : call[k].of[1].format[n] = "b"
============================================================================
