--------------------------- MODULE ConsoleProofs ---------------------------
(***************************************************************************)
(* Proofs about the way of a byte from printf to the wire: none is lost    *)
(* between the test of the port and the write, however deep handlers nest, *)
(* as long as the FIFO holds a byte of every level; what each level has    *)
(* printed arrives complete and in its order; and it is what the format of *)
(* the call promises, its numbers digit by digit.                          *)
(***************************************************************************)
EXTENDS Console, FiniteSetTheorems, SequenceTheorems, WellFoundedInduction, TLAPS

(* While level k is about to write, the levels above it have put at most   *)
(* one byte each into the FIFO: each of them found it empty before.        *)
SequenceOK == \E S : fifo \in Seq(S)
ControlOK  == /\ level \in Levels /\ pc \in [Levels -> Stage]
              /\ \A k \in Levels : k > level => pc[k] = "idle"
              /\ pc[0] \in {"init", "test"} => level = 0
DepthOK    == pc[0] # "init" => depth = FifoDepth
RoomOK     == \A k \in Levels : pc[k] = "send" => Len(fifo) <= Nesting - k \/ ~present

Inv == SequenceOK /\ ControlOK /\ DepthOK /\ RoomOK

---------------------------------------------------------------------------
(* What Append and Tail do to the length of a sequence.                    *)
LEMMA AppendLength ==
  ASSUME NEW S, NEW s \in Seq(S), NEW e
  PROVE  /\ \E T : Append(s, e) \in Seq(T)
         /\ Len(Append(s, e)) = Len(s) + 1 /\ Len(s) \in Nat
<1> DEFINE T == S \union {e}
<1>1. s \in Seq(T)
  OBVIOUS
<1>2. Append(s, e) \in Seq(T) /\ Len(Append(s, e)) = Len(s) + 1 /\ Len(s) \in Nat
  BY <1>1
<1> QED
  BY <1>2

(* What Append does to the elements.                                       *)
LEMMA AppendElements ==
  ASSUME NEW S, NEW s \in Seq(S), NEW e
  PROVE  /\ DOMAIN s = 1 .. Len(s) /\ DOMAIN Append(s, e) = 1 .. Len(s) + 1
         /\ \A n \in 1 .. Len(s) : Append(s, e)[n] = s[n]
         /\ Append(s, e)[Len(s) + 1] = e
         /\ Len(Append(s, e)) = Len(s) + 1 /\ Len(s) \in Nat
<1> DEFINE T == S \union {e}
<1>1. s \in Seq(T) /\ e \in T
  OBVIOUS
<1> HIDE DEF T
<1> QED
  BY <1>1

(* What Tail does to the length.                                           *)
LEMMA TailLength ==
  ASSUME NEW S, NEW s \in Seq(S), s # <<>>
  PROVE  Tail(s) \in Seq(S) /\ Len(Tail(s)) = Len(s) - 1 /\ Len(s) \in Nat
  OBVIOUS

(* terminal_initialize: nobody is about to write.                          *)
LEMMA InitInv == Init => Inv
<1> SUFFICES ASSUME Init PROVE Inv
  OBVIOUS
<1> USE DEF Init
<1>1. SequenceOK
  BY DEF SequenceOK
<1>2. ControlOK
  BY ConsoleAssumption DEF ControlOK, Levels, Stage
<1>3. DepthOK
  BY ConsoleAssumption DEF DepthOK, Levels
<1>4. RoomOK
  BY DEF RoomOK
<1> QED
  BY <1>1, <1>2, <1>3, <1>4 DEF Inv

(* A step that leaves the port alone and takes no level to its write.      *)
LEMMA QuietInv ==
  ASSUME Inv, UNCHANGED <<port, level, fifo>>, NEW k \in Levels, k = level,
         NEW stage \in Stage \ {"init", "test", "send"},
         pc[k] # "init", pc' = [pc EXCEPT ![k] = stage]
  PROVE  Inv'
<1> USE DEF Inv
<1>1. SequenceOK'
  BY DEF SequenceOK
<1>2. ControlOK'
  BY DEF ControlOK, Levels
<1>3. DepthOK'
  BY ConsoleAssumption DEF DepthOK, ControlOK, port, Levels
<1>4. RoomOK'
  BY DEF RoomOK, ControlOK, port
<1> QED
  BY <1>1, <1>2, <1>3, <1>4

(* A step that changes none of the four.                                   *)
LEMMA StutterInv ==
  ASSUME Inv, UNCHANGED <<port, level, fifo, pc>>
  PROVE  Inv'
BY DEF Inv, SequenceOK, ControlOK, DepthOK, RoomOK, port

(* A piece of the format only moves its level on.                          *)
LEMMA NextPieceInv ==
  ASSUME Inv, NEW k \in Levels, NextPiece(k) PROVE Inv'
<1>1. k = level /\ pc[k] = "print" /\ UNCHANGED <<port, level, fifo>>
  BY DEF NextPiece, Runs, cpu
<1>2. pc \in [Levels -> Stage]
  BY DEF Inv, ControlOK
<1>3. \E stage \in {"print", "return", "lost"} : pc' = [pc EXCEPT ![k] = stage]
  <2>1. ASSUME NEW text, NEW format, NEW args, NEW tested, NEW spilt,
               Piece(k, text, format, args, tested, spilt)
        PROVE  \E stage \in {"print", "return", "lost"} : pc' = [pc EXCEPT ![k] = stage]
    <3>1. CASE pc' = pc
      <4>1. pc' = [pc EXCEPT ![k] = "print"]
        BY <1>1, <1>2, <3>1
      <4> QED
        BY <4>1
    <3>2. CASE pc' # pc
      BY <2>1, <3>2 DEF Piece
    <3> QED
      BY <3>1, <3>2
  <2> QED
    BY <2>1 DEF NextPiece, LiteralPiece, ConversionPiece, Verbatim
<1>4. PICK stage \in {"print", "return", "lost"} : pc' = [pc EXCEPT ![k] = stage]
  BY <1>3
<1> QED
  BY <1>1, <1>4, QuietInv DEF Stage

(* So does its end.                                                        *)
LEMMA EndOfFormatInv ==
  ASSUME Inv, NEW k \in Levels, EndOfFormat(k) PROVE Inv'
BY QuietInv DEF EndOfFormat, Runs, Stage, cpu

(* Polling ends when the FIFO is empty.                                    *)
LEMMA PollInv ==
  ASSUME Inv, NEW k \in Levels, Poll(k) PROVE Inv'
<1> USE DEF Inv, Poll, Runs, port, cpu
<1>1. SequenceOK'
  BY DEF SequenceOK
<1>2. ControlOK'
  BY DEF ControlOK, Levels, Stage
<1>3. DepthOK'
  BY ConsoleAssumption DEF DepthOK, ControlOK, Levels
<1>4. RoomOK'
  <2>1. k \in Int /\ Nesting \in Nat /\ k <= Nesting
    BY ConsoleAssumption DEF Levels
  <2>2. ~present \/ Len(fifo) = 0
    BY DEF is_transmit_empty
  <2> QED
    BY <2>1, <2>2 DEF RoomOK, ControlOK
<1> QED
  BY <1>1, <1>2, <1>3, <1>4

(* A write adds a byte, below the bound of every level underneath.         *)
LEMMA SendInv ==
  ASSUME Inv, NEW k \in Levels, Send(k) PROVE Inv'
<1> DEFINE byte == Byte(k, Head(call[k].pending))
<1> HIDE DEF byte
<1>0. /\ k = level /\ pc[k] = "send" /\ pc' = [pc EXCEPT ![k] = "print"]
      /\ UNCHANGED <<port, level>> /\ Outb(byte)
  BY DEF Send, Runs, cpu, byte
<1>s. PICK S : fifo \in Seq(S)
  BY DEF Inv, SequenceOK
<1>a. /\ \E T : Append(fifo, byte) \in Seq(T)
      /\ Len(Append(fifo, byte)) = Len(fifo) + 1 /\ Len(fifo) \in Nat
  BY <1>s, AppendLength
<1>f. fifo' = fifo \/ (present /\ fifo' = Append(fifo, byte))
  BY <1>0 DEF Outb
<1>1. SequenceOK'
  BY <1>s, <1>a, <1>f DEF SequenceOK
<1>2. ControlOK'
  BY <1>0 DEF Inv, ControlOK, Levels, Stage
<1>3. DepthOK'
  BY <1>0, ConsoleAssumption DEF Inv, DepthOK, ControlOK, port, Levels
<1>4. RoomOK'
  <2> SUFFICES ASSUME NEW j \in Levels, pc'[j] = "send", present
               PROVE  Len(fifo') <= Nesting - j
    BY <1>0 DEF RoomOK, port
  <2>1. j # k /\ pc[j] = "send"
    BY <1>0 DEF Inv, ControlOK
  <2>2. j < k
    BY <2>1, <1>0, ConsoleAssumption DEF Inv, ControlOK, Levels
  <2>3. Len(fifo) <= Nesting - k
    BY <1>0 DEF Inv, RoomOK
  <2>4. j \in Int /\ k \in Int /\ Nesting \in Int
    BY ConsoleAssumption DEF Levels
  <2> QED
    BY <2>2, <2>3, <2>4, <1>a, <1>f
<1> QED
  BY <1>1, <1>2, <1>3, <1>4 DEF Inv

(* The level below goes on with the bytes it was promised room for.        *)
LEMMA HandlerReturnsInv ==
  ASSUME Inv, NEW k \in Levels, HandlerReturns(k) PROVE Inv'
<1> USE DEF Inv, HandlerReturns, Runs, port, cpu
<1>1. SequenceOK'
  BY DEF SequenceOK
<1>2. ControlOK'
  BY ConsoleAssumption DEF ControlOK, Levels, Stage
<1>3. DepthOK'
  BY ConsoleAssumption DEF DepthOK, ControlOK, Levels
<1>4. RoomOK'
  BY DEF RoomOK, ControlOK
<1> QED
  BY <1>1, <1>2, <1>3, <1>4

(* While the port is set up nobody is about to write.                      *)
LEMMA InitSerialInv == ASSUME Inv, InitSerial PROVE Inv'
<1> USE DEF Inv, InitSerial, Runs, cpu
<1>0. 0 \in Levels /\ \A k \in Levels : k = 0 \/ k > 0
  BY ConsoleAssumption DEF Levels
<1>1. SequenceOK'
  <2>1. <<>> \in Seq({}) /\ <<Byte(0, Echo)>> \in Seq({Byte(0, Echo)})
    OBVIOUS
  <2> QED
    BY <2>1 DEF SequenceOK
<1>2. ControlOK'
  BY <1>0 DEF ControlOK, Stage
<1>3. DepthOK'
  BY DEF DepthOK
<1>4. RoomOK'
  BY <1>0 DEF RoomOK, ControlOK
<1> QED
  BY <1>1, <1>2, <1>3, <1>4

(* Nor while it is tested.                                                 *)
LEMMA TestSerialInv == ASSUME Inv, TestSerial PROVE Inv'
<1> USE DEF Inv, TestSerial, Runs, cpu
<1>0. 0 \in Levels /\ \A k \in Levels : k = 0 \/ k > 0
  BY ConsoleAssumption DEF Levels
<1>1. SequenceOK'
  BY DEF SequenceOK
<1>2. ControlOK'
  BY <1>0 DEF ControlOK, Stage
<1>3. DepthOK'
  BY DEF DepthOK
<1>4. RoomOK'
  BY <1>0 DEF RoomOK, ControlOK
<1> QED
  BY <1>1, <1>2, <1>3, <1>4

(* A call of the main thread starts with its format.                       *)
LEMMA MainPrintsInv == ASSUME Inv, MainPrints PROVE Inv'
<1>1. 0 \in Levels
  BY ConsoleAssumption DEF Levels
<1> QED
  BY <1>1, QuietInv DEF MainPrints, Printf, Runs, Stage, cpu

(* A handler starts above the level that has the CPU.                      *)
LEMMA HandlerPrintsInv == ASSUME Inv, HandlerPrints PROVE Inv'
<1>0. /\ level' = level + 1 /\ pc' = [pc EXCEPT ![level + 1] = "print"]
      /\ UNCHANGED <<port, fifo>> /\ pc[0] \in {"print", "send", "return"}
      /\ level < Nesting
  BY DEF HandlerPrints, Printf
<1>1. SequenceOK'
  BY <1>0 DEF Inv, SequenceOK
<1>2. ControlOK'
  BY <1>0, ConsoleAssumption DEF Inv, ControlOK, Levels, Stage
<1>3. DepthOK'
  BY <1>0, ConsoleAssumption DEF Inv, DepthOK, ControlOK, port, Levels
<1>4. RoomOK'
  BY <1>0 DEF Inv, RoomOK, ControlOK, port
<1> QED
  BY <1>1, <1>2, <1>3, <1>4 DEF Inv

(* The port makes room.                                                    *)
LEMMA TransmitInv == ASSUME Inv, Transmit PROVE Inv'
<1>0. fifo # <<>> /\ fifo' = Tail(fifo) /\ UNCHANGED <<port, level, pc>>
  BY DEF Transmit, cpu
<1>s. PICK S : fifo \in Seq(S)
  BY DEF Inv, SequenceOK
<1>t. fifo' \in Seq(S) /\ Len(fifo') = Len(fifo) - 1 /\ Len(fifo) \in Nat
  BY <1>0, <1>s, TailLength
<1>1. SequenceOK'
  BY <1>t DEF SequenceOK
<1>2. ControlOK' /\ DepthOK'
  BY <1>0 DEF Inv, ControlOK, DepthOK, port
<1>4. RoomOK'
  BY <1>0, <1>t, ConsoleAssumption DEF Inv, RoomOK, port, Levels
<1> QED
  BY <1>1, <1>2, <1>4 DEF Inv

(* The invariant holds however the levels and the port take turns.         *)
THEOREM Invariant == Spec => []Inv
<1>1. Inv /\ [Next]_vars => Inv'
  <2> SUFFICES ASSUME Inv, [Next]_vars PROVE Inv'
    OBVIOUS
  <2>1. CASE \E k \in Levels : Thread(k)
    BY <2>1, NextPieceInv, EndOfFormatInv, PollInv, SendInv, HandlerReturnsInv DEF Thread
  <2>2. CASE InitSerial
    BY <2>2, InitSerialInv
  <2>3. CASE TestSerial
    BY <2>3, TestSerialInv
  <2>4. CASE MainPrints
    BY <2>4, MainPrintsInv
  <2>5. CASE HandlerPrints
    BY <2>5, HandlerPrintsInv
  <2>6. CASE Transmit
    BY <2>6, TransmitInv
  <2>7. CASE UNCHANGED vars
    BY <2>7, StutterInv DEF vars, cpu
  <2> QED
    BY <2>1, <2>2, <2>3, <2>4, <2>5, <2>6, <2>7 DEF Next
<1> QED
  BY InitInv, <1>1, PTL DEF Spec

(* A level that is about to write finds room.                              *)
LEMMA RoomForByte == Inv => SendFindsRoom
<1> SUFFICES ASSUME Inv, present, NEW k \in Levels, pc[k] = "send"
             PROVE  Len(fifo) < depth
  BY DEF SendFindsRoom
<1>1. Len(fifo) <= Nesting - k
  BY DEF Inv, RoomOK
<1>2. PICK S : fifo \in Seq(S)
  BY DEF Inv, SequenceOK
<1>3. Len(fifo) \in Nat /\ k \in Nat /\ Nesting < FifoDepth /\ FifoDepth \in Nat
      /\ Nesting \in Nat
  BY <1>2, ConsoleAssumption DEF Levels
<1>4. pc[0] # "init"
  BY ConsoleAssumption DEF Inv, ControlOK, Levels
<1> QED
  BY <1>1, <1>3, <1>4 DEF Inv, DepthOK

(* Whoever writes a byte finds room for it: write_serial's test cannot be  *)
(* made stale by handlers that print in between, for any number of levels  *)
(* the FIFO has room for.                                                  *)
THEOREM SendsFindRoom == Spec => []SendFindsRoom
BY Invariant, RoomForByte, PTL

---------------------------------------------------------------------------
(* What the type invariant needs besides the invariant above is itself.    *)
LEMMA InitType == Init => TypeOK
<1> SUFFICES ASSUME Init PROVE TypeOK
  OBVIOUS
<1>1. Len(fifo) = 0 /\ Len(received) = 0 /\ depth = 1
  BY DEF Init
<1>2. Len(fifo) <= depth /\ Len(received) <= 1
  BY <1>1
<1> QED
  BY <1>2, ConsoleAssumption DEF Init, TypeOK, Levels, Stage

(* A step that leaves the port alone and takes no level to its write.      *)
LEMMA QuietType ==
  ASSUME TypeOK, UNCHANGED <<port, cpu, fifo, received>>, NEW k \in Levels,
         NEW stage \in Stage \ {"init", "send"}, pc' = [pc EXCEPT ![k] = stage],
         \A j \in Levels \ {k} : call'[j] = call[j]
  PROVE  TypeOK'
BY DEF TypeOK, port, cpu

---------------------------------------------------------------------------
(* Every level has a call of printf, or Idle, and has printed a sequence.  *)
Fields(c) == [format |-> c.format, args |-> c.args, pending |-> c.pending,
              written |-> c.written, printed |-> c.printed, spilt |-> c.spilt,
              of |-> c.of, halts |-> c.halts]

CallOK == /\ call = [k \in Levels |-> call[k]]
          /\ \A k \in Levels : /\ call[k] = Fields(call[k])
                               /\ \E S : call[k].printed \in Seq(S)

(* What printf writes into its level's call, and the call it starts with.  *)
Call(f, a, p, w, r, s, o, h) ==
  [format |-> f, args |-> a, pending |-> p, written |-> w,
   printed |-> r, spilt |-> s, of |-> o, halts |-> h]

StoppedAt(c, w) == [c EXCEPT !.written = w]
Cut(c, f, a, p, w, s) ==
  [c EXCEPT !.format = f, !.args = a, !.pending = p, !.written = w, !.spilt = s]
Sent(c, p, r) == [c EXCEPT !.pending = p, !.printed = r]
Started(c, f, a, o, h) == [c EXCEPT !.format = f, !.args = a, !.of = o, !.halts = h]

(* The empty sequence has any elements.                                    *)
LEMMA NothingPrinted == <<>> \in Seq({})
OBVIOUS

(* A new call has printed nothing.                                         *)
LEMMA FreshCall ==
  ASSUME NEW f, NEW a, NEW p, NEW w, NEW s, NEW o, NEW h, NEW c,
         c = Call(f, a, p, w, <<>>, s, o, h)
  PROVE  c = Fields(c) /\ c.printed = <<>> /\ c.of = o /\ \E S : c.printed \in Seq(S)
<1>1. c = Fields(c) /\ c.printed = <<>> /\ c.of = o
  BY DEF Fields, Call
<1> QED
  BY <1>1, NothingPrinted

(* Idle is a call whose numbers and flags do not matter here.              *)
LEMMA IdleCall == \E w, s, h : Idle = Call(<<>>, <<>>, <<>>, w, <<>>, s, <<>>, h)
<1>1. Idle = Call(<<>>, <<>>, <<>>, 0, <<>>, FALSE, <<>>, FALSE)
  BY DEF Idle, Call
<1> QED
  BY <1>1

(* The writes, one field after the other.                                  *)
LEMMA CutFields ==
  ASSUME NEW f0, NEW a0, NEW p0, NEW w0, NEW r0, NEW s0, NEW o0, NEW h0,
         NEW f, NEW a, NEW p, NEW w, NEW s,
         NEW c, c = Call(f0, a0, p0, w0, r0, s0, o0, h0)
  PROVE  Cut(c, f, a, p, w, s) = Call(f, a, p, w, r0, s, o0, h0)
<1> DEFINE c1 == [c EXCEPT !.format = f]
<1> DEFINE c2 == [c1 EXCEPT !.args = a]
<1> DEFINE c3 == [c2 EXCEPT !.pending = p]
<1> DEFINE c4 == [c3 EXCEPT !.written = w]
<1> DEFINE c5 == [c4 EXCEPT !.spilt = s]
<1>0. Cut(c, f, a, p, w, s) = c5
  BY Zenon DEF Cut
<1>1. c1 = Call(f, a0, p0, w0, r0, s0, o0, h0)
  BY DEF Call
<1> HIDE DEF c1
<1>2. c2 = Call(f, a, p0, w0, r0, s0, o0, h0)
  BY <1>1 DEF Call
<1> HIDE DEF c2
<1>3. c3 = Call(f, a, p, w0, r0, s0, o0, h0)
  BY <1>2 DEF Call
<1> HIDE DEF c3
<1>4. c4 = Call(f, a, p, w, r0, s0, o0, h0)
  BY <1>3 DEF Call
<1> HIDE DEF c4
<1>5. c5 = Call(f, a, p, w, r0, s, o0, h0)
  BY <1>4 DEF Call
<1> HIDE DEF c5
<1> QED
  BY <1>0, <1>5

(* The same for the call that printf starts with.                          *)
LEMMA StartedFields ==
  ASSUME NEW f0, NEW a0, NEW p0, NEW w0, NEW r0, NEW s0, NEW o0, NEW h0,
         NEW f, NEW a, NEW o, NEW h,
         NEW c, c = Call(f0, a0, p0, w0, r0, s0, o0, h0)
  PROVE  Started(c, f, a, o, h) = Call(f, a, p0, w0, r0, s0, o, h)
<1> DEFINE c1 == [c EXCEPT !.format = f]
<1> DEFINE c2 == [c1 EXCEPT !.args = a]
<1> DEFINE c3 == [c2 EXCEPT !.of = o]
<1> DEFINE c4 == [c3 EXCEPT !.halts = h]
<1>0. Started(c, f, a, o, h) = c4
  BY Zenon DEF Started
<1>1. c1 = Call(f, a0, p0, w0, r0, s0, o0, h0)
  BY DEF Call
<1> HIDE DEF c1
<1>2. c2 = Call(f, a, p0, w0, r0, s0, o0, h0)
  BY <1>1 DEF Call
<1> HIDE DEF c2
<1>3. c3 = Call(f, a, p0, w0, r0, s0, o, h0)
  BY <1>2 DEF Call
<1> HIDE DEF c3
<1>4. c4 = Call(f, a, p0, w0, r0, s0, o, h)
  BY <1>3 DEF Call
<1> HIDE DEF c4
<1> QED
  BY <1>0, <1>4

(* The same for the two that write_serial's caller advances.               *)
LEMMA SentFields ==
  ASSUME NEW f0, NEW a0, NEW p0, NEW w0, NEW r0, NEW s0, NEW o0, NEW h0,
         NEW p, NEW r, NEW c, c = Call(f0, a0, p0, w0, r0, s0, o0, h0)
  PROVE  Sent(c, p, r) = Call(f0, a0, p, w0, r, s0, o0, h0)
<1> DEFINE c1 == [c EXCEPT !.pending = p]
<1> DEFINE c2 == [c1 EXCEPT !.printed = r]
<1>0. Sent(c, p, r) = c2
  BY Zenon DEF Sent
<1>1. c1 = Call(f0, a0, p, w0, r0, s0, o0, h0)
  BY DEF Call
<1> HIDE DEF c1
<1>2. c2 = Call(f0, a0, p, w0, r, s0, o0, h0)
  BY <1>1 DEF Call
<1> HIDE DEF c2
<1> QED
  BY <1>0, <1>2

(* A write of one field, or of all that a piece changes, leaves the others.*)
LEMMA ChangedFields ==
  ASSUME NEW c, c = Fields(c), NEW f, NEW a, NEW p, NEW w, NEW s, NEW r
  PROVE  /\ StoppedAt(c, w) = Fields(StoppedAt(c, w))
         /\ StoppedAt(c, w).of = c.of /\ StoppedAt(c, w).printed = c.printed
         /\ StoppedAt(c, w).spilt = c.spilt
         /\ Cut(c, f, a, p, w, s) = Fields(Cut(c, f, a, p, w, s))
         /\ Cut(c, f, a, p, w, s).of = c.of /\ Cut(c, f, a, p, w, s).spilt = s
         /\ Cut(c, f, a, p, w, s).printed = c.printed
         /\ Sent(c, p, r) = Fields(Sent(c, p, r)) /\ Sent(c, p, r).of = c.of
         /\ Sent(c, p, r).printed = r
<1>1. PICK f0, a0, p0, w0, r0, s0, o0, h0 : c = Call(f0, a0, p0, w0, r0, s0, o0, h0)
  BY DEF Fields, Call
<1>2. StoppedAt(c, w) = Call(f0, a0, p0, w, r0, s0, o0, h0)
  BY <1>1 DEF StoppedAt, Call
<1>3. Cut(c, f, a, p, w, s) = Call(f, a, p, w, r0, s, o0, h0)
  BY <1>1, CutFields
<1>4. Sent(c, p, r) = Call(f0, a0, p, w0, r, s0, o0, h0)
  BY <1>1, SentFields
<1>5. StoppedAt(c, w) = Fields(StoppedAt(c, w)) /\ StoppedAt(c, w).of = c.of
      /\ StoppedAt(c, w).printed = c.printed /\ StoppedAt(c, w).spilt = c.spilt
  BY <1>1, <1>2 DEF Fields, Call
<1>6. Cut(c, f, a, p, w, s) = Fields(Cut(c, f, a, p, w, s))
      /\ Cut(c, f, a, p, w, s).of = c.of /\ Cut(c, f, a, p, w, s).printed = c.printed
      /\ Cut(c, f, a, p, w, s).spilt = s
  BY <1>1, <1>3 DEF Fields, Call
<1>7. Sent(c, p, r) = Fields(Sent(c, p, r)) /\ Sent(c, p, r).of = c.of
      /\ Sent(c, p, r).printed = r
  BY <1>1, <1>4 DEF Fields, Call
<1> QED
  BY <1>5, <1>6, <1>7

(* At first every call is Idle.                                            *)
LEMMA InitCall == Init => CallOK
<1> SUFFICES ASSUME Init PROVE CallOK
  OBVIOUS
<1>1. call = [k \in Levels |-> Idle]
  BY DEF Init
<1>2. Idle = Fields(Idle) /\ \E S : Idle.printed \in Seq(S)
  BY FreshCall DEF Idle, Call
<1> QED
  BY <1>1, <1>2 DEF CallOK

(* A level's call is replaced by one that has all its fields.              *)
LEMMA ReplaceCall ==
  ASSUME CallOK, NEW k \in Levels, NEW c, call' = [call EXCEPT ![k] = c],
         c = Fields(c), \E S : c.printed \in Seq(S)
  PROVE  CallOK' /\ call'[k] = c /\ \A j \in Levels \ {k} : call'[j] = call[j]
<1> DEFINE new == call'
<1>1. /\ new = [j \in Levels |-> new[j]] /\ new[k] = c
      /\ \A j \in Levels \ {k} : new[j] = call[j]
  BY DEF CallOK
<1>2. \A j \in Levels : new[j] = Fields(new[j]) /\ \E S : new[j].printed \in Seq(S)
  BY <1>1 DEF CallOK
<1> QED
  BY <1>1, <1>2 DEF CallOK

(* printf cuts off a piece, or stops: only its own call and stage change.  *)
LEMMA PieceChanges ==
  ASSUME Inv, CallOK, NEW k \in Levels, NextPiece(k)
  PROVE  /\ \E stage \in {"print", "return", "lost"} : pc' = [pc EXCEPT ![k] = stage]
         /\ \/ \E w : call' = [call EXCEPT ![k] = StoppedAt(call[k], w)]
            \/ \E f, a, p, w, s : /\ call[k].spilt => s
                                  /\ call' = [call EXCEPT ![k] = Cut(call[k], f, a, p, w, s)]
         /\ UNCHANGED <<port, cpu, fifo, received, wire>>
<1>1. pc \in [Levels -> Stage] /\ pc[k] = "print"
  BY DEF Inv, ControlOK, NextPiece, Runs
<1>3. k \in DOMAIN call
  BY DEF CallOK
<1>2. ASSUME NEW text, NEW format, NEW args, NEW tested, NEW spilt,
             Piece(k, text, format, args, tested, spilt)
      PROVE  /\ \E stage \in {"print", "return", "lost"} : pc' = [pc EXCEPT ![k] = stage]
             /\ \/ \E w : call' = [call EXCEPT ![k] = StoppedAt(call[k], w)]
                \/ \E f, a, p, w, s : /\ call[k].spilt => s
                                      /\ call' = [call EXCEPT ![k] = Cut(call[k], f, a, p, w, s)]
  <2>1. CASE tested /\ TooLong(call[k].written, Len(text))
    <3>1. call' = [call EXCEPT ![k].written = -1] /\ pc' = [pc EXCEPT ![k] = "return"]
      BY <1>2, <2>1 DEF Piece
    <3>2. call' = [call EXCEPT ![k] = StoppedAt(call[k], -1)]
      BY <3>1 DEF StoppedAt
    <3> QED
      BY <3>1, <3>2
  <2>2. CASE ~(tested /\ TooLong(call[k].written, Len(text)))
    <3>1. /\ call' = [call EXCEPT ![k].format = format, ![k].args = args,
                             ![k].pending = text, ![k].written = call[k].written + Len(text),
                             ![k].spilt = call[k].spilt \/ spilt]
          /\ \E next \in IF spilt THEN {"print", "lost"} ELSE {"print"} :
               pc' = [pc EXCEPT ![k] = next]
      BY <1>2, <2>2 DEF Piece
    <3> DEFINE s == call[k].spilt \/ spilt
    <3>2. call' = [call EXCEPT ![k] = Cut(call[k], format, args, text,
                       call[k].written + Len(text), s)]
      BY <3>1, <1>3 DEF Cut
    <3>3. \E stage \in {"print", "return", "lost"} : pc' = [pc EXCEPT ![k] = stage]
      BY <3>1
    <3>4. call[k].spilt => s
      OBVIOUS
    <3> HIDE DEF Cut, s
    <3> QED
      BY <3>2, <3>3, <3>4
  <2> QED
    BY <2>1, <2>2
<1> QED
  BY <1>2 DEF NextPiece, LiteralPiece, ConversionPiece, Verbatim

(* A piece of the format leaves what was printed and of what call alone,   *)
(* and that a frame was written.                                           *)
LEMMA PieceCall ==
  ASSUME Inv, CallOK, NEW k \in Levels, NextPiece(k)
  PROVE  /\ CallOK'
         /\ \A j \in Levels : call'[j].of = call[j].of /\ call'[j].printed = call[j].printed
         /\ \A j \in Levels \ {k} : call'[j] = call[j]
         /\ call[k].spilt => call'[k].spilt
<1>0. call[k] = Fields(call[k]) /\ \E S : call[k].printed \in Seq(S)
  BY DEF CallOK
<1>1. PICK c : /\ call' = [call EXCEPT ![k] = c] /\ c = Fields(c)
               /\ c.of = call[k].of /\ c.printed = call[k].printed
               /\ call[k].spilt => c.spilt
  <2>1. CASE \E w : call' = [call EXCEPT ![k] = StoppedAt(call[k], w)]
    <3>1. PICK w : call' = [call EXCEPT ![k] = StoppedAt(call[k], w)]
      BY <2>1
    <3> DEFINE c == StoppedAt(call[k], w)
    <3>2. c = Fields(c) /\ c.of = call[k].of /\ c.printed = call[k].printed
      BY <1>0, ChangedFields
    <3>3. c.spilt = call[k].spilt
      BY <1>0, ChangedFields
    <3> HIDE DEF c
    <3> QED
      BY <3>1, <3>2, <3>3 DEF c
  <2>2. CASE \E f, a, p, w, s : /\ call[k].spilt => s
                                /\ call' = [call EXCEPT ![k] = Cut(call[k], f, a, p, w, s)]
    <3>1. PICK f, a, p, w, s : /\ call[k].spilt => s
                               /\ call' = [call EXCEPT ![k] = Cut(call[k], f, a, p, w, s)]
      BY <2>2
    <3> DEFINE c == Cut(call[k], f, a, p, w, s)
    <3>2. c = Fields(c) /\ c.of = call[k].of /\ c.printed = call[k].printed
      BY <1>0, ChangedFields
    <3>3. c.spilt = s
      BY <1>0, ChangedFields
    <3> HIDE DEF c
    <3> QED
      BY <3>1, <3>2, <3>3 DEF c
  <2> QED
    BY <2>1, <2>2, PieceChanges
<1>2. CallOK' /\ call'[k] = c /\ \A j \in Levels \ {k} : call'[j] = call[j]
  BY <1>0, <1>1, ReplaceCall
<1> QED
  BY <1>1, <1>2

---------------------------------------------------------------------------
(* What a further byte does to the bytes a level has printed.              *)
LEMMA EndsWithNothing == ASSUME NEW bytes, NEW k PROVE EndsWith(bytes, k, <<>>)
BY DEF EndsWith

(* A byte of another level is not in the way.                              *)
LEMMA EndsWithOther ==
  ASSUME NEW S, NEW bytes \in Seq(S), NEW k, NEW text, NEW byte, byte.level # k,
         EndsWith(bytes, k, text)
  PROVE  EndsWith(Append(bytes, byte), k, text)
<1> DEFINE more    == Append(bytes, byte)
           ofLevel == {q \in DOMAIN bytes : bytes[q].level = k}
           now     == {q \in DOMAIN more : more[q].level = k}
<1>1. /\ DOMAIN bytes = 1 .. Len(bytes) /\ DOMAIN more = 1 .. Len(bytes) + 1
      /\ \A q \in 1 .. Len(bytes) : more[q] = bytes[q]
      /\ more[Len(bytes) + 1] = byte /\ Len(bytes) \in Nat
  BY AppendElements
<1> HIDE DEF more
<1>2. now = ofLevel
  BY <1>1
<1>3. \A q \in ofLevel : more[q] = bytes[q]
  BY <1>1
<1> SUFFICES ASSUME NEW n \in DOMAIN text
             PROVE  \E q \in now : /\ more[q].char = text[n]
                                  /\ Cardinality({r \in now : r > q}) = Len(text) - n
  BY DEF EndsWith, more
<1>4. PICK q \in ofLevel : /\ bytes[q].char = text[n]
                           /\ Cardinality({r \in ofLevel : r > q}) = Len(text) - n
  BY DEF EndsWith
<1> HIDE DEF now, ofLevel
<1> QED
  BY <1>2, <1>3, <1>4

(* A byte of the level itself is the next character of its text.           *)
LEMMA EndsWithNext ==
  ASSUME NEW S, NEW bytes \in Seq(S), NEW C, NEW text \in Seq(C), NEW k,
         NEW byte, byte.level = k, EndsWith(bytes, k, text)
  PROVE  EndsWith(Append(bytes, byte), k, Append(text, byte.char))
<1> DEFINE more    == Append(bytes, byte)
           longer  == Append(text, byte.char)
           last    == Len(bytes) + 1
           ofLevel == {q \in DOMAIN bytes : bytes[q].level = k}
           now     == {q \in DOMAIN more : more[q].level = k}
<1>1. /\ DOMAIN bytes = 1 .. Len(bytes) /\ DOMAIN more = 1 .. last
      /\ \A q \in 1 .. Len(bytes) : more[q] = bytes[q]
      /\ more[last] = byte /\ Len(bytes) \in Nat
  BY AppendElements
<1>2. /\ DOMAIN text = 1 .. Len(text) /\ DOMAIN longer = 1 .. Len(text) + 1
      /\ \A n \in 1 .. Len(text) : longer[n] = text[n]
      /\ longer[Len(text) + 1] = byte.char
      /\ Len(longer) = Len(text) + 1 /\ Len(text) \in Nat
  BY AppendElements
<1> HIDE DEF more, longer
<1>3. now = ofLevel \union {last} /\ last \notin ofLevel /\ ofLevel \subseteq 1 .. Len(bytes)
  BY <1>1
<1> SUFFICES ASSUME NEW n \in 1 .. Len(text) + 1
             PROVE  \E q \in now : /\ more[q].char = longer[n]
                                  /\ Cardinality({r \in now : r > q}) = Len(longer) - n
  BY <1>2 DEF EndsWith, more, longer
<1>4. CASE n = Len(text) + 1
  <2>1. {r \in now : r > last} = {}
    BY <1>1, <1>3
  <2>2. Cardinality({r \in now : r > last}) = 0
    BY <2>1, FS_EmptySet
  <2>3. Len(longer) - n = 0
    BY <1>2, <1>4
  <2> QED
    BY <1>1, <1>2, <1>3, <1>4, <2>2, <2>3
<1>5. CASE n \in 1 .. Len(text)
  <2>1. PICK q \in ofLevel : /\ bytes[q].char = text[n]
                             /\ Cardinality({r \in ofLevel : r > q}) = Len(text) - n
    BY <1>2, <1>5 DEF EndsWith
  <2> DEFINE after == {r \in ofLevel : r > q}
  <2>2. {r \in now : r > q} = after \union {last} /\ last \notin after
    BY <1>1, <1>3
  <2>3. IsFiniteSet(after)
    <3>1. IsFiniteSet(1 .. Len(bytes))
      BY <1>1, FS_Interval
    <3>2. after \in SUBSET (1 .. Len(bytes))
      BY <1>3
    <3> HIDE DEF after
    <3> QED
      BY <3>1, <3>2, FS_Subset
  <2>4. Cardinality({r \in now : r > q}) = Len(text) - n + 1
    BY <2>1, <2>2, <2>3, FS_AddElement
  <2>5. Len(text) - n + 1 = Len(longer) - n
    BY <1>2, <1>5
  <2>6. more[q].char = longer[n] /\ q \in now
    BY <1>1, <1>2, <1>3, <1>5, <2>1
  <2>7. Cardinality({r \in now : r > q}) = Len(longer) - n
    BY <2>4, <2>5, Zenon
  <2> HIDE DEF now, after
  <2> QED
    BY <2>6, <2>7
<1>6. n = Len(text) + 1 \/ n \in 1 .. Len(text)
  BY <1>2
<1> HIDE DEF now
<1> QED
  BY <1>4, <1>5, <1>6

---------------------------------------------------------------------------
(* What is on the wire and in the FIFO; a port that is not there neither   *)
(* holds nor echoes a byte; whoever finds the port initialised finds it    *)
(* there and out of loopback; and nothing is printed before that is known. *)
WireOK   == \E S : wire \in Seq(S) /\ fifo \in Seq(S)
SerialOK == /\ ~present => fifo = <<>> /\ received = <<>>
            /\ serial_initialized => present /\ ~loopback
            /\ pc[0] \in {"init", "test"} =>
                 ~serial_initialized /\ \A k \in Levels : call[k].of = <<>>
Sends    == WireOK /\ SerialOK /\ Delivered

IInv == Inv /\ TypeOK /\ CallOK /\ Sends

(* Nothing has been printed.                                               *)
LEMMA InitSends == Init => Sends
<1> SUFFICES ASSUME Init PROVE Sends
  OBVIOUS
<1>1. wire = <<>> /\ fifo = <<>> /\ received = <<>> /\ ~serial_initialized
      /\ \A k \in Levels : call[k] = Idle
  BY DEF Init
<1>2. WireOK
  BY <1>1, NothingPrinted DEF WireOK
<1>3. Idle.of = <<>>
  BY DEF Idle
<1> QED
  BY <1>1, <1>2, <1>3 DEF Sends, SerialOK, Delivered

(* A step that leaves the port alone: a level has printed what it had, or  *)
(* it starts a call and has printed nothing.                               *)
LEMMA QuietSends ==
  ASSUME Sends, UNCHANGED <<port, fifo, received, wire>>, pc'[0] \notin {"init", "test"},
         \A j \in Levels : \/ call'[j].of = call[j].of /\ call'[j].printed = call[j].printed
                          \/ call'[j].printed = <<>>
  PROVE  Sends'
<1>1. WireOK' /\ SerialOK'
  BY DEF Sends, WireOK, SerialOK, port
<1>2. Delivered'
  <2> SUFFICES ASSUME serial_initialized, NEW j \in Levels, call'[j].of # <<>>
               PROVE  EndsWith(wire \o fifo, j, call'[j].printed)
    BY DEF Delivered, port
  <2>1. CASE call'[j].of = call[j].of /\ call'[j].printed = call[j].printed
    BY <2>1 DEF Sends, Delivered
  <2>2. CASE call'[j].printed = <<>>
    BY <2>2, EndsWithNothing
  <2> QED
    BY <2>1, <2>2
<1> QED
  BY <1>1, <1>2 DEF Sends

(* Only the main thread runs while the port is set up.                     *)
LEMMA RunningLevel ==
  ASSUME Inv, NEW k \in Levels, NEW at \in {"print", "send", "return"}, Runs(k, at)
  PROVE  pc[0] \notin {"init", "test"} /\ pc \in [Levels -> Stage] /\ 0 \in Levels
         /\ k = level /\ pc[k] = at
BY ConsoleAssumption DEF Inv, ControlOK, Runs, Levels

(* Each action in turn: a piece of the format.                             *)
LEMMA NextPieceIInv ==
  ASSUME IInv, NEW k \in Levels, NextPiece(k) PROVE TypeOK' /\ CallOK' /\ Sends'
<1>1. CallOK' /\ \A j \in Levels : call'[j].of = call[j].of /\ call'[j].printed = call[j].printed
      /\ \A i \in Levels \ {k} : call'[i] = call[i]
  BY PieceCall DEF IInv
<1>2. PICK stage \in {"print", "return", "lost"} : pc' = [pc EXCEPT ![k] = stage]
  BY PieceChanges DEF IInv
<1>3. UNCHANGED <<port, cpu, fifo, received, wire>>
  BY DEF NextPiece
<1>4. TypeOK'
  BY <1>1, <1>2, <1>3, QuietType DEF IInv, Stage
<1>5. pc'[0] \notin {"init", "test"}
  BY <1>2, RunningLevel DEF IInv, NextPiece
<1>6. Sends'
  BY <1>1, <1>3, <1>5, QuietSends DEF IInv
<1> QED
  BY <1>1, <1>4, <1>6

(* The end of the format.                                                  *)
LEMMA EndOfFormatIInv ==
  ASSUME IInv, NEW k \in Levels, EndOfFormat(k) PROVE TypeOK' /\ CallOK' /\ Sends'
<1>1. Runs(k, "print") /\ pc' = [pc EXCEPT ![k] = "return"]
      /\ UNCHANGED <<port, cpu, fifo, received, wire, call>>
  BY DEF EndOfFormat
<1>2. TypeOK'
  BY <1>1, QuietType DEF IInv, Stage
<1>3. pc'[0] \notin {"init", "test"}
  BY <1>1, RunningLevel DEF IInv
<1>4. CallOK' /\ Sends'
  BY <1>1, <1>3, QuietSends DEF IInv, CallOK
<1> QED
  BY <1>2, <1>4

(* The end of the polling, with a byte to send.                            *)
LEMMA PollIInv ==
  ASSUME IInv, NEW k \in Levels, Poll(k) PROVE TypeOK' /\ CallOK' /\ Sends'
<1>1. Runs(k, "print") /\ pc' = [pc EXCEPT ![k] = "send"] /\ call[k].pending # <<>>
      /\ UNCHANGED <<port, cpu, fifo, received, wire, call>>
  BY DEF Poll
<1>2. TypeOK'
  BY <1>1 DEF IInv, TypeOK, Stage, port, cpu
<1>3. pc'[0] \notin {"init", "test"}
  BY <1>1, RunningLevel DEF IInv
<1>4. CallOK' /\ Sends'
  BY <1>1, <1>3, QuietSends DEF IInv, CallOK
<1> QED
  BY <1>2, <1>4

(* The return of a handler.                                                *)
LEMMA HandlerReturnsIInv ==
  ASSUME IInv, NEW k \in Levels, HandlerReturns(k) PROVE TypeOK' /\ CallOK' /\ Sends'
<1>1. k > 0 /\ Runs(k, "return") /\ pc' = [pc EXCEPT ![k] = "idle"] /\ level' = k - 1
      /\ UNCHANGED <<port, handlers, fifo, received, wire, call>>
  BY DEF HandlerReturns
<1>2. level' \in Levels
  BY <1>1, ConsoleAssumption DEF Levels
<1>3. TypeOK'
  BY <1>1, <1>2 DEF IInv, TypeOK, Stage, port
<1>4. pc'[0] \notin {"init", "test"}
  BY <1>1, RunningLevel DEF IInv
<1>5. CallOK' /\ Sends'
  BY <1>1, <1>4, QuietSends DEF IInv, CallOK
<1> QED
  BY <1>3, <1>5

(* A level starts a call of printf.                                        *)
LEMMA PrintfStarts ==
  ASSUME CallOK, NEW k \in Levels, NEW c, NEW halts, Printf(k, c, halts)
  PROVE  /\ CallOK' /\ pc' = [pc EXCEPT ![k] = "print"]
         /\ call'[k].printed = <<>> /\ \A j \in Levels \ {k} : call'[j] = call[j]
<1> DEFINE start == Started(Idle, c.format, c.args, <<c>>, halts)
<1>1. call' = [call EXCEPT ![k] = start] /\ pc' = [pc EXCEPT ![k] = "print"]
  BY DEF Printf, Started
<1>2. PICK w0, s0, h0 : Idle = Call(<<>>, <<>>, <<>>, w0, <<>>, s0, <<>>, h0)
  BY IdleCall
<1>3. PICK f, a, o : f = c.format /\ a = c.args /\ o = <<c>>
  OBVIOUS
<1>4. start = Started(Idle, f, a, o, halts)
  BY <1>3
<1>5. start = Call(f, a, <<>>, w0, <<>>, s0, o, halts)
  BY <1>2, <1>4, StartedFields
<1> HIDE DEF start
<1>6. start = Fields(start) /\ start.printed = <<>> /\ \E S : start.printed \in Seq(S)
  BY <1>5, FreshCall
<1> QED
  BY <1>1, <1>6, ReplaceCall

(* A call of the main thread.                                              *)
LEMMA MainPrintsIInv == ASSUME IInv, MainPrints PROVE TypeOK' /\ CallOK' /\ Sends'
<1>0. 0 \in Levels
  BY ConsoleAssumption DEF Levels
<1>1. Runs(0, "return") /\ UNCHANGED <<port, cpu, fifo, received, wire>>
  BY DEF MainPrints
<1>2. PICK c : Printf(0, c, FALSE)
  BY DEF MainPrints
<1>3. /\ CallOK' /\ pc' = [pc EXCEPT ![0] = "print"]
      /\ call'[0].printed = <<>> /\ \A j \in Levels \ {0} : call'[j] = call[j]
  BY <1>0, <1>2, PrintfStarts DEF IInv
<1>4. TypeOK'
  BY <1>0, <1>1, <1>3, QuietType DEF IInv, Stage
<1>5. pc'[0] \notin {"init", "test"}
  BY <1>0, <1>1, <1>3, RunningLevel DEF IInv
<1>6. Sends'
  BY <1>1, <1>3, <1>5, QuietSends DEF IInv
<1> QED
  BY <1>3, <1>4, <1>6

(* A handler and its call.                                                 *)
LEMMA HandlerPrintsIInv == ASSUME IInv, HandlerPrints PROVE TypeOK' /\ CallOK' /\ Sends'
<1> DEFINE next == level + 1
<1>0. 0 \in Levels /\ next \in Levels /\ next > 0 /\ handlers + 1 \in 0 .. MaxHandlers
  BY ConsoleAssumption DEF Levels, HandlerPrints, IInv, TypeOK
<1>1. /\ level' = next /\ handlers' = handlers + 1
      /\ pc[0] \in {"print", "send", "return"}
      /\ UNCHANGED <<port, fifo, received, wire>>
  BY DEF HandlerPrints
<1>2. PICK c, halts : Printf(next, c, halts)
  BY DEF HandlerPrints
<1> HIDE DEF next
<1>3. /\ CallOK' /\ pc' = [pc EXCEPT ![next] = "print"]
      /\ call'[next].printed = <<>> /\ \A j \in Levels \ {next} : call'[j] = call[j]
  BY <1>0, <1>2, PrintfStarts DEF IInv
<1>4. TypeOK'
  BY <1>0, <1>1, <1>3 DEF IInv, TypeOK, Stage, port
<1>5. pc'[0] \notin {"init", "test"}
  BY <1>0, <1>1, <1>3 DEF IInv, TypeOK
<1>6. Sends'
  BY <1>1, <1>3, <1>5, QuietSends DEF IInv
<1> QED
  BY <1>3, <1>4, <1>6

(* While the port is set up nobody has printed through it, so that what it *)
(* drops and echoes is nobody's.                                           *)
LEMMA InitSerialIInv == ASSUME IInv, InitSerial PROVE TypeOK' /\ CallOK' /\ Sends'
<1>0. 0 \in Levels /\ \A k \in Levels : k = 0 \/ k > 0
  BY ConsoleAssumption DEF Levels
<1>1. /\ level = 0 /\ pc[0] = "init" /\ pc' = [pc EXCEPT ![0] = "test"]
      /\ depth' = FifoDepth /\ loopback' = TRUE /\ received' = <<>>
      /\ fifo' = IF present THEN <<Byte(0, Echo)>> ELSE <<>>
      /\ UNCHANGED <<present, serial_initialized, cpu, wire, call>>
  BY DEF InitSerial, Runs
<1>2. Len(fifo') <= depth' /\ Len(received') <= 1
  <2>1. Len(<<Byte(0, Echo)>>) = 1 /\ Len(<<>>) = 0
    OBVIOUS
  <2>2. FifoDepth \in Nat /\ FifoDepth >= 1
    BY ConsoleAssumption
  <2> QED
    BY <1>1, <2>1, <2>2
<1>3. TypeOK'
  BY <1>0, <1>1, <1>2 DEF IInv, TypeOK, Stage, cpu
<1>4. CallOK'
  BY <1>1 DEF IInv, CallOK
<1>5. WireOK'
  <2>1. PICK S : wire \in Seq(S)
    BY DEF IInv, Sends, WireOK
  <2> DEFINE T == S \union {Byte(0, Echo)}
  <2>2. wire \in Seq(T) /\ <<>> \in Seq(T) /\ <<Byte(0, Echo)>> \in Seq(T)
    BY <2>1
  <2> QED
    BY <1>1, <2>2 DEF WireOK
<1>6. ~serial_initialized /\ \A k \in Levels : call[k].of = <<>>
  BY <1>1 DEF IInv, Sends, SerialOK
<1>7. SerialOK' /\ Delivered'
  BY <1>1, <1>6 DEF SerialOK, Delivered
<1> QED
  BY <1>3, <1>4, <1>5, <1>7 DEF Sends

(* A port that echoed is there, and leaves loopback.                       *)
LEMMA TestSerialIInv == ASSUME IInv, TestSerial PROVE TypeOK' /\ CallOK' /\ Sends'
<1>0. 0 \in Levels /\ pc \in [Levels -> Stage]
  BY ConsoleAssumption DEF Levels, IInv, TypeOK
<1> DEFINE ok == <<"o", "k", "\n">>
           start == [Idle EXCEPT !.pending = ok]
<1>1. /\ pc[0] = "test" /\ pc' = [pc EXCEPT ![0] = "print"] /\ received' = <<>>
      /\ serial_initialized' = (received # <<>>)
      /\ loopback' = (loopback /\ ~(received # <<>>))
      /\ call' = [call EXCEPT ![0] = start]
      /\ UNCHANGED <<present, depth, cpu, fifo, wire>>
  BY DEF TestSerial, Runs, SayOk
<1>p. PICK w0, s0, h0 : Idle = Call(<<>>, <<>>, <<>>, w0, <<>>, s0, <<>>, h0)
  BY IdleCall
<1> HIDE DEF ok
<1>2. start = Call(<<>>, <<>>, ok, w0, <<>>, s0, <<>>, h0)
  BY <1>p DEF Call
<1> HIDE DEF start
<1>3. start = Fields(start) /\ start.of = <<>> /\ \E S : start.printed \in Seq(S)
  BY <1>2, FreshCall
<1>4. CallOK' /\ call'[0] = start /\ \A j \in Levels \ {0} : call'[j] = call[j]
  BY <1>0, <1>1, <1>3, ReplaceCall DEF IInv
<1>5. TypeOK'
  <2>1. Len(received') <= 1
    BY <1>1
  <2>2. serial_initialized' \in BOOLEAN /\ loopback' \in BOOLEAN
    BY <1>1
  <2>3. /\ pc' \in [Levels -> Stage]
        /\ \A k \in Levels : (pc'[k] = "send" => call'[k].pending # <<>>)
                            /\ (pc'[k] = "init" => k = 0)
    BY <1>0, <1>1, <1>4 DEF IInv, TypeOK, Stage
  <2>4. /\ depth' \in {1, FifoDepth} /\ Len(fifo') <= depth'
        /\ present' \in BOOLEAN /\ level' \in Levels /\ handlers' \in 0 .. MaxHandlers
    BY <1>1 DEF IInv, TypeOK, cpu
  <2> QED
    BY <2>1, <2>2, <2>3, <2>4 DEF TypeOK
<1>6. \A k \in Levels : call[k].of = <<>>
  BY <1>1 DEF IInv, Sends, SerialOK
<1>7. \A k \in Levels : call'[k].of = <<>>
  BY <1>3, <1>4, <1>6
<1>8. WireOK' /\ Delivered'
  BY <1>1, <1>7 DEF IInv, Sends, WireOK, Delivered
<1>9. SerialOK'
  <2>1. pc'[0] = "print"
    BY <1>0, <1>1
  <2>2. ~present => received = <<>> /\ fifo = <<>>
    BY DEF IInv, Sends, SerialOK
  <2> QED
    BY <1>1, <2>1, <2>2 DEF SerialOK
<1> QED
  BY <1>4, <1>5, <1>8, <1>9 DEF Sends

(* Where the FIFO ends and the wire begins does not matter.                *)
LEMMA ByteAtTheEnd ==
  ASSUME NEW S, NEW s \in Seq(S), NEW t \in Seq(S), NEW e \in S
  PROVE  s \o Append(t, e) = Append(s \o t, e)
OBVIOUS

(* The first byte of one sequence becomes the last of the other.           *)
LEMMA ByteMoves ==
  ASSUME NEW S, NEW s \in Seq(S), NEW t \in Seq(S), t # <<>>
  PROVE  Append(s, Head(t)) \o Tail(t) = s \o t
<1> DEFINE l == Append(s, Head(t)) \o Tail(t)
           r == s \o t
<1>1. Head(t) = t[1] /\ t[1] \in S /\ Len(t) \in Nat \ {0} /\ Len(s) \in Nat
  OBVIOUS
<1>2. Append(s, Head(t)) \in Seq(S) /\ Tail(t) \in Seq(S)
  BY <1>1
<1>3. l \in Seq(S) /\ r \in Seq(S)
  BY <1>2
<1>4. Len(l) = Len(s) + Len(t) /\ Len(r) = Len(s) + Len(t)
  BY <1>1, <1>2
<1>5. ASSUME NEW n \in 1 .. Len(s) + Len(t) PROVE l[n] = r[n]
  <2>1. CASE n <= Len(s)
    BY <1>1, <1>2, <2>1
  <2>2. CASE n = Len(s) + 1
    BY <1>1, <1>2, <2>2
  <2>3. CASE n > Len(s) + 1
    BY <1>1, <1>2, <2>3
  <2> QED
    BY <1>1, <2>1, <2>2, <2>3
<1> HIDE DEF l, r
<1>6. l = r
  BY <1>3, <1>4, <1>5
<1> QED
  BY <1>6 DEF l, r

(* The byte a level sends is the next of its text, whoever else has sent.  *)
LEMMA SendIInv ==
  ASSUME IInv, NEW k \in Levels, Send(k) PROVE TypeOK' /\ CallOK' /\ Sends'
<1> DEFINE char == Head(call[k].pending)
           byte == Byte(k, char)
           rest == Tail(call[k].pending)
           text == Append(call[k].printed, char)
           more == Sent(call[k], rest, text)
<1>0. byte.level = k /\ byte.char = char
  BY DEF Byte
<1>1. /\ Runs(k, "send") /\ Outb(byte) /\ pc' = [pc EXCEPT ![k] = "print"]
      /\ UNCHANGED <<port, cpu, received, wire>>
  BY DEF Send
<1>2. call' = [call EXCEPT ![k] = more]
  <2>1. k \in DOMAIN call
    BY DEF IInv, CallOK
  <2>2. call' = [call EXCEPT ![k].pending = rest, ![k].printed = text]
    BY DEF Send
  <2> QED
    BY <2>1, <2>2 DEF Sent
<1> HIDE DEF char, byte, rest, text, more
<1>3. call[k] = Fields(call[k]) /\ \E C : call[k].printed \in Seq(C)
  BY DEF IInv, CallOK
<1>4. more = Fields(more) /\ more.of = call[k].of /\ more.printed = text
  BY <1>3, ChangedFields DEF more
<1>5. \E C : text \in Seq(C)
  BY <1>3, AppendLength DEF text
<1>6. CallOK' /\ call'[k] = more /\ \A j \in Levels \ {k} : call'[j] = call[j]
  BY <1>2, <1>4, <1>5, ReplaceCall DEF IInv
<1>7. PICK S : wire \in Seq(S) /\ fifo \in Seq(S)
  BY DEF IInv, Sends, WireOK
<1>8. present => Len(fifo) < depth
  BY <1>1, RoomForByte DEF IInv, SendFindsRoom, Runs
<1>9. fifo' = IF present THEN Append(fifo, byte) ELSE fifo
  BY <1>1, <1>8 DEF Outb
<1> DEFINE T == S \union {byte}
<1>10. wire \in Seq(T) /\ fifo \in Seq(T) /\ byte \in T
  BY <1>7
<1> HIDE DEF T
<1>11. WireOK'
  <2>1. Append(fifo, byte) \in Seq(T)
    BY <1>10
  <2> QED
    BY <1>1, <1>9, <1>10, <2>1 DEF WireOK
<1>12. pc'[0] \notin {"init", "test"} /\ pc \in [Levels -> Stage]
  BY <1>1, RunningLevel DEF IInv
<1>13. TypeOK'
  <2>1. Len(fifo') <= depth'
    <3>1. Len(Append(fifo, byte)) = Len(fifo) + 1 /\ Len(fifo) \in Nat
      BY <1>10
    <3>2. depth \in Int /\ Len(fifo) <= depth /\ depth' = depth
      BY <1>1, ConsoleAssumption DEF IInv, TypeOK, port
    <3> QED
      BY <1>8, <1>9, <3>1, <3>2
  <2>2. /\ pc' \in [Levels -> Stage]
        /\ \A j \in Levels : (pc'[j] = "send" => call'[j].pending # <<>>)
                            /\ (pc'[j] = "init" => j = 0)
    BY <1>1, <1>6, <1>12 DEF IInv, TypeOK, Stage
  <2> QED
    BY <1>1, <2>1, <2>2 DEF IInv, TypeOK, port, cpu
<1>14. SerialOK'
  BY <1>1, <1>9, <1>12 DEF IInv, Sends, SerialOK, port
<1>15. Delivered'
  <2> SUFFICES ASSUME serial_initialized, NEW j \in Levels, call'[j].of # <<>>
               PROVE  EndsWith(wire \o fifo', j, call'[j].printed)
    BY <1>1 DEF Delivered, port
  <2>1. present
    BY DEF IInv, Sends, SerialOK
  <2>2. wire \o fifo' = Append(wire \o fifo, byte)
    BY <1>9, <1>10, <2>1, ByteAtTheEnd
  <2>3. wire \o fifo \in Seq(T)
    BY <1>10
  <2>4. call[j].of # <<>> => EndsWith(wire \o fifo, j, call[j].printed)
    BY DEF IInv, Sends, Delivered
  <2>5. CASE j = k
    <3>1. PICK C : call[k].printed \in Seq(C)
      BY <1>3
    <3>2. EndsWith(wire \o fifo, k, call[k].printed)
      BY <1>4, <1>6, <2>4, <2>5
    <3>3. EndsWith(Append(wire \o fifo, byte), k, Append(call[k].printed, byte.char))
      BY <1>0, <2>3, <3>1, <3>2, EndsWithNext
    <3> QED
      BY <1>0, <1>4, <1>6, <2>2, <2>5, <3>3 DEF text
  <2>6. CASE j # k
    <3>1. EndsWith(Append(wire \o fifo, byte), j, call[j].printed)
      BY <1>0, <1>6, <2>3, <2>4, <2>6, EndsWithOther
    <3> QED
      BY <1>6, <2>2, <2>6, <3>1
  <2> QED
    BY <2>5, <2>6
<1> QED
  BY <1>6, <1>11, <1>13, <1>14, <1>15 DEF Sends

(* Outside loopback the byte that leaves the FIFO enters the wire.         *)
LEMMA TransmitIInv == ASSUME IInv, Transmit PROVE TypeOK' /\ CallOK' /\ Sends'
<1>1. /\ fifo # <<>> /\ fifo' = Tail(fifo) /\ UNCHANGED <<port, cpu, pc, call>>
      /\ IF loopback THEN received' = <<Head(fifo)>> /\ wire' = wire
                     ELSE wire' = Append(wire, Head(fifo)) /\ received' = received
  BY DEF Transmit
<1>2. PICK S : wire \in Seq(S) /\ fifo \in Seq(S)
  BY DEF IInv, Sends, WireOK
<1>3. Tail(fifo) \in Seq(S) /\ Len(Tail(fifo)) = Len(fifo) - 1 /\ Len(fifo) \in Nat
  BY <1>1, <1>2, TailLength
<1>4. TypeOK'
  <2>1. Len(fifo') <= depth'
    BY <1>1, <1>3, ConsoleAssumption DEF IInv, TypeOK, port
  <2>2. Len(<<Head(fifo)>>) = 1
    OBVIOUS
  <2>3. Len(received') <= 1
    <3>1. received' = <<Head(fifo)>> => Len(received') <= 1
      BY <2>2
    <3>2. received' = received => Len(received') <= 1
      BY DEF IInv, TypeOK
    <3> QED
      BY <1>1, <3>1, <3>2
  <2> QED
    BY <1>1, <2>1, <2>3 DEF IInv, TypeOK, port, cpu
<1>5. CallOK'
  BY <1>1 DEF IInv, CallOK
<1>6. WireOK'
  <2>1. Head(fifo) \in S
    BY <1>1, <1>2
  <2>2. Append(wire, Head(fifo)) \in Seq(S)
    BY <1>2, <2>1
  <2> QED
    BY <1>1, <1>2, <1>3, <2>2 DEF WireOK
<1>7. SerialOK'
  BY <1>1 DEF IInv, Sends, SerialOK, port
<1>8. Delivered'
  <2> SUFFICES ASSUME serial_initialized
               PROVE  wire' \o fifo' = wire \o fifo
    BY <1>1 DEF IInv, Sends, Delivered, port
  <2>1. ~loopback
    BY DEF IInv, Sends, SerialOK
  <2> QED
    BY <1>1, <1>2, <2>1, ByteMoves
<1> QED
  BY <1>4, <1>5, <1>6, <1>7, <1>8 DEF Sends

(* The inductive invariant of the port and of the calls.                   *)
THEOREM InvariantHolds == Spec => []IInv
<1>1. Init => TypeOK /\ CallOK /\ Sends
  BY InitType, InitCall, InitSends
<1>2. IInv /\ [Next]_vars => TypeOK' /\ CallOK' /\ Sends'
  <2> SUFFICES ASSUME IInv, [Next]_vars PROVE TypeOK' /\ CallOK' /\ Sends'
    OBVIOUS
  <2>1. CASE \E k \in Levels : Thread(k)
    BY <2>1, NextPieceIInv, EndOfFormatIInv, PollIInv, SendIInv, HandlerReturnsIInv
       DEF Thread
  <2>2. CASE InitSerial
    BY <2>2, InitSerialIInv
  <2>3. CASE TestSerial
    BY <2>3, TestSerialIInv
  <2>4. CASE MainPrints
    BY <2>4, MainPrintsIInv
  <2>5. CASE HandlerPrints
    BY <2>5, HandlerPrintsIInv
  <2>6. CASE Transmit
    BY <2>6, TransmitIInv
  <2>7. CASE UNCHANGED vars
    BY <2>7 DEF vars, cpu, port, IInv, TypeOK, CallOK, Sends, WireOK, SerialOK, Delivered
  <2> QED
    BY <2>1, <2>2, <2>3, <2>4, <2>5, <2>6, <2>7 DEF Next
<1>3. TypeOK /\ CallOK /\ Sends /\ Inv => IInv
  BY DEF IInv
<1>4. TypeOK' /\ CallOK' /\ Sends' /\ Inv' => IInv'
  BY DEF IInv
<1> QED
  BY Invariant, <1>1, <1>2, <1>3, <1>4, PTL DEF Spec

(* The types of the port, the CPU and the calls.                           *)
THEOREM TypeCorrect == Spec => []TypeOK
<1>1. IInv => TypeOK
  BY DEF IInv
<1> QED
  BY InvariantHolds, <1>1, PTL

(* What every level printed through a working port is on the wire or on    *)
(* its way, complete and in its order, whoever interrupted whom.           *)
THEOREM PrintedIsDelivered == Spec => []Delivered
<1>1. IInv => Delivered
  BY DEF IInv, Sends
<1> QED
  BY InvariantHolds, <1>1, PTL

---------------------------------------------------------------------------
(* A set of numbers has a least one.                                       *)
LEMMA Least ==
  ASSUME NEW U, U \subseteq Nat, U # {}
  PROVE  \E x \in U : \A y \in U : x <= y
<1> DEFINE R == OpToRel(<, Nat)
<1>1. \A x, y \in Nat : y < x => <<y, x>> \in R
  BY DEF OpToRel
<1>2. IsWellFoundedOn(R, Nat)
  BY NatLessThanWellFounded
<1> HIDE DEF R
<1>3. PICK x \in U : \A y \in U : ~ (<<y, x>> \in R)
  BY <1>2, WFMin
<1>4. ASSUME NEW y \in U PROVE x <= y
  <2>1. ~(y < x)
    BY <1>1, <1>3
  <2> QED
    BY <2>1
<1> QED
  BY <1>4

(* A set of numbers with 0 and the successor of each is all of them: its   *)
(* complement would have a least element.                                  *)
LEMMA Induction ==
  ASSUME NEW T, 0 \in T, \A n \in Nat : n \in T => n + 1 \in T
  PROVE  Nat \subseteq T
<1> DEFINE U == Nat \ T
<1> SUFFICES ASSUME U # {} PROVE FALSE
  OBVIOUS
<1> HIDE DEF U
<1>1. PICK x \in U : \A y \in U : x <= y
  BY Least DEF U
<1>2. x \in Nat /\ x # 0 /\ x - 1 \in Nat /\ x - 1 < x
  BY DEF U
<1>3. x - 1 \in T
  BY <1>1, <1>2 DEF U
<1> QED
  BY <1>2, <1>3 DEF U

(* A function on 0 .. N whose values come from two earlier ones.           *)
Recurs(f, N, S, a, p, q, G) ==
  f \in [0 .. N -> S] /\ f = [n \in 0 .. N |-> IF n = 0 THEN a ELSE G[n][<<f[p[n]], f[q[n]]>>]]

(* Such a function as far as n.                                            *)
Upto(f, n, S, a, p, q, G) ==
  f \in [0 .. n -> S] /\ f[0] = a /\ \A k \in 1 .. n : f[k] = G[k][<<f[p[k]], f[q[k]]>>]

(* There is one: the one that stops at n can be taken one step further.    *)
LEMMA Recursion ==
  ASSUME NEW N \in Nat, NEW S, NEW a \in S, NEW p \in [1 .. N -> Nat], NEW q \in [1 .. N -> Nat],
         \A n \in 1 .. N : p[n] < n /\ q[n] < n,
         NEW G \in [1 .. N -> [S \X S -> S]]
  PROVE  \E f : Recurs(f, N, S, a, p, q, G)
<1> DEFINE Some(n) == \E f : Upto(f, n, S, a, p, q, G)
           T == {n \in Nat : n <= N => Some(n)}
<1>1. 0 \in T
  <2> DEFINE f == [k \in 0 .. 0 |-> a]
  <2>1. Upto(f, 0, S, a, p, q, G)
    BY DEF Upto
  <2> QED
    BY <2>1
<1>2. ASSUME NEW n \in Nat, n \in T PROVE n + 1 \in T
  <2> HIDE DEF Some
  <2> SUFFICES ASSUME n + 1 <= N PROVE Some(n + 1)
    OBVIOUS
  <2>0. Some(n)
    BY <1>2
  <2>p. PICK f : Upto(f, n, S, a, p, q, G)
    BY <2>0 DEF Some
  <2>1. f \in [0 .. n -> S] /\ f[0] = a /\ \A k \in 1 .. n : f[k] = G[k][<<f[p[k]], f[q[k]]>>]
    BY <2>p DEF Upto
  <2>2. p[n + 1] \in 0 .. n /\ q[n + 1] \in 0 .. n /\ n + 1 \in 1 .. N
    OBVIOUS
  <2> DEFINE v == G[n + 1][<<f[p[n + 1]], f[q[n + 1]]>>]
             g == [k \in 0 .. n + 1 |-> IF k = n + 1 THEN v ELSE f[k]]
  <2>3. v \in S
    <3>1. f[p[n + 1]] \in S /\ f[q[n + 1]] \in S
      BY <2>1, <2>2
    <3>2. G[n + 1] \in [S \X S -> S]
      BY <2>2
    <3> QED
      BY <3>1, <3>2
  <2>4. v = G[n + 1][<<f[p[n + 1]], f[q[n + 1]]>>]
    OBVIOUS
  <2> HIDE DEF v
  <2>5. g \in [0 .. n + 1 -> S] /\ g[0] = a
    BY <2>1, <2>3
  <2>6. ASSUME NEW k \in 1 .. n + 1 PROVE g[k] = G[k][<<g[p[k]], g[q[k]]>>]
    <3>1. k \in 1 .. N /\ p[k] \in 0 .. n /\ q[k] \in 0 .. n
      OBVIOUS
    <3>2. g[p[k]] = f[p[k]] /\ g[q[k]] = f[q[k]]
      BY <3>1
    <3>3. CASE k = n + 1
      <4>1. g[k] = v
        BY <3>3
      <4> HIDE DEF g
      <4> QED
        BY <2>4, <3>2, <3>3, <4>1
    <3>4. CASE k # n + 1
      <4>1. k \in 1 .. n /\ g[k] = f[k]
        BY <3>4
      <4> HIDE DEF g
      <4> QED
        BY <2>1, <3>2, <4>1
    <3> QED
      BY <3>3, <3>4
  <2> HIDE DEF g
  <2>7. Upto(g, n + 1, S, a, p, q, G)
    BY <2>5, <2>6 DEF Upto
  <2> QED
    BY <2>7 DEF Some
<1>3. N \in T
  <2> HIDE DEF T
  <2> QED
    BY <1>1, <1>2, Induction
<1>s. Some(N)
  <2> HIDE DEF Some
  <2> QED
    BY <1>3
<1>p. PICK f : Upto(f, N, S, a, p, q, G)
  BY <1>s
<1>4. f \in [0 .. N -> S] /\ f[0] = a /\ \A k \in 1 .. N : f[k] = G[k][<<f[p[k]], f[q[k]]>>]
  BY <1>p DEF Upto
<1>5. ASSUME NEW n \in 0 .. N
      PROVE  f[n] = IF n = 0 THEN a ELSE G[n][<<f[p[n]], f[q[n]]>>]
  <2>1. CASE n = 0
    BY <1>4, <2>1
  <2>2. CASE n # 0
    <3>1. n \in 1 .. N
      BY <2>2
    <3> QED
      BY <1>4, <2>2, <3>1
  <2> QED
    BY <2>1, <2>2
<1>6. f = [n \in 0 .. N |-> f[n]]
  BY <1>4
<1>7. f = [n \in 0 .. N |-> IF n = 0 THEN a ELSE G[n][<<f[p[n]], f[q[n]]>>]]
  BY <1>5, <1>6
<1> QED
  BY <1>4, <1>7 DEF Recurs

---------------------------------------------------------------------------
(* Powers.                                                                 *)
LEMMA PowerFacts ==
  ASSUME NEW base \in Nat \ {0}
  PROVE  /\ Power(base) \in [0 .. Word -> Nat \ {0}] /\ Power(base)[0] = 1
         /\ \A n \in 1 .. Word : Power(base)[n] = base * Power(base)[n - 1]
<1> DEFINE S == Nat \ {0}
           before == [n \in 1 .. Word |-> n - 1]
           times == [v \in S \X S |-> base * v[1]]
           G == [n \in 1 .. Word |-> times]
           Is(f) == f = [n \in 0 .. Word |-> IF n = 0 THEN 1 ELSE base * f[n - 1]]
<1>0. Word \in Nat
  BY ConsoleAssumption
<1>1. times \in [S \X S -> S] /\ \A v, w \in S : times[<<v, w>>] = base * v
  <2>1. \A v \in S : base * v \in S
    OBVIOUS
  <2> QED
    BY <2>1
<1>2. before \in [1 .. Word -> Nat] /\ \A n \in 1 .. Word : before[n] = n - 1 /\ before[n] < n
  BY <1>0
<1>3. G \in [1 .. Word -> [S \X S -> S]] /\ \A n \in 1 .. Word : G[n] = times
  <2> HIDE DEF times
  <2> QED
    BY <1>1
<1>4. 1 \in S
  OBVIOUS
<1> HIDE DEF before, times, G, S
<1>5. PICK f : Recurs(f, Word, S, 1, before, before, G)
  BY <1>0, <1>2, <1>3, <1>4, Recursion
<1>6. f \in [0 .. Word -> S]
  BY <1>5 DEF Recurs
<1>7. ASSUME NEW n \in 0 .. Word
      PROVE  f[n] = IF n = 0 THEN 1 ELSE base * f[n - 1]
  <2>1. f[n] = IF n = 0 THEN 1 ELSE G[n][<<f[before[n]], f[before[n]]>>]
    BY <1>5 DEF Recurs
  <2>2. CASE n # 0
    <3>1. n \in 1 .. Word /\ n - 1 \in 0 .. Word
      BY <1>0, <2>2
    <3>2. f[n - 1] \in S /\ before[n] = n - 1 /\ G[n] = times
      BY <1>2, <1>3, <1>6, <3>1
    <3> QED
      BY <1>1, <2>1, <2>2, <3>2
  <2> QED
    BY <2>1, <2>2
<1>8. Is(f)
  <2>1. f = [n \in 0 .. Word |-> f[n]]
    BY <1>6
  <2> QED
    BY <1>7, <2>1
<1>9. Power(base) = CHOOSE g : Is(g)
  BY DEF Power
<1>10. Is(Power(base))
  <2> HIDE DEF Is
  <2> QED
    BY <1>8, <1>9
<1> DEFINE h == Power(base)
<1> HIDE DEF h
<1>11. h = [n \in 0 .. Word |-> IF n = 0 THEN 1 ELSE base * h[n - 1]]
  BY <1>10 DEF h
<1>12. h[0] = 1 /\ \A n \in 1 .. Word : h[n] = base * h[n - 1]
  BY <1>0, <1>11
<1>13. \A n \in 0 .. Word : h[n] \in S
  <2> DEFINE T == {n \in Nat : n <= Word => h[n] \in S}
  <2>1. 0 \in T
    BY <1>4, <1>12
  <2>2. ASSUME NEW n \in Nat, n \in T PROVE n + 1 \in T
    <3> SUFFICES ASSUME n + 1 <= Word PROVE h[n + 1] \in S
      OBVIOUS
    <3>1. h[n] \in S /\ n + 1 \in 1 .. Word /\ (n + 1) - 1 = n
      BY <1>0, <2>2
    <3>2. h[n + 1] = base * h[n]
      BY <1>12, <3>1
    <3> QED
      BY <3>1, <3>2 DEF S
  <2>3. Nat \subseteq T
    <3> HIDE DEF T
    <3> QED
      BY <2>1, <2>2, Induction
  <2> QED
    BY <1>0, <2>3
<1>14. h \in [0 .. Word -> S]
  BY <1>11, <1>13
<1> QED
  BY <1>12, <1>14 DEF h, S

(* The quotient and the remainder of a division, and that there is only    *)
(* one of each.                                                            *)
LEMMA Division ==
  ASSUME NEW m \in Nat \ {0}, NEW x \in Nat
  PROVE  /\ x \div m \in Nat /\ x % m \in 0 .. m - 1 /\ x = m * (x \div m) + (x % m)
         /\ \A s \in Nat, u \in 0 .. m - 1 : x = m * s + u => s = x \div m /\ u = x % m
<1>1. x \div m \in Nat /\ x % m \in 0 .. m - 1 /\ x = m * (x \div m) + (x % m)
  OBVIOUS
<1> DEFINE q == x \div m
           r == x % m
<1>2. q \in Nat /\ r \in 0 .. m - 1 /\ x = m * q + r
  BY <1>1
<1> HIDE DEF q, r
<1>3. ASSUME NEW s \in Nat, NEW u \in 0 .. m - 1, x = m * s + u PROVE s = q
  <2>1. CASE s > q
    <3> DEFINE d == s - q
    <3>1. d \in Nat /\ d >= 1 /\ s = q + d
      BY <1>2, <2>1
    <3> HIDE DEF d
    <3>2. m * s = m * q + m * d /\ m * d >= m
      BY <1>2, <3>1
    <3> QED
      BY <1>2, <1>3, <3>2
  <2>2. CASE s < q
    <3> DEFINE d == q - s
    <3>1. d \in Nat /\ d >= 1 /\ q = s + d
      BY <1>2, <2>2
    <3> HIDE DEF d
    <3>2. m * q = m * s + m * d /\ m * d >= m
      BY <1>2, <3>1
    <3> QED
      BY <1>2, <1>3, <3>2
  <2> QED
    BY <1>2, <2>1, <2>2
<1>4. ASSUME NEW s \in Nat, NEW u \in 0 .. m - 1, x = m * s + u PROVE s = q /\ u = r
  <2>1. s = q
    BY <1>3, <1>4
  <2> QED
    BY <1>2, <1>4, <2>1
<1> QED
  BY <1>1, <1>4 DEF q, r

(* A division by a product in two steps.                                   *)
LEMMA DivisionTwice ==
  ASSUME NEW b \in Nat \ {0}, NEW c \in Nat \ {0}, NEW x \in Nat
  PROVE  (x \div b) \div c = x \div (b * c)
<1> DEFINE q == x \div b
           r == x % b
           s == q \div c
           t == q % c
<1>1. q \in Nat /\ r \in 0 .. b - 1 /\ x = b * q + r
  BY Division
<1>2. s \in Nat /\ t \in 0 .. c - 1 /\ q = c * s + t
  <2> HIDE DEF q
  <2> QED
    BY <1>1, Division
<1>3. s = (x \div b) \div c
  OBVIOUS
<1> HIDE DEF q, r, s, t
<1>4. b * c \in Nat \ {0}
  OBVIOUS
<1> DEFINE u == b * t + r
           bc == b * c
<1>5. u \in Nat
  BY <1>1, <1>2
<1>6. u <= bc - 1
  <2>1. b * t <= b * (c - 1) /\ b * (c - 1) = bc - b
    BY <1>2
  <2> QED
    BY <1>1, <1>2, <2>1
<1>7. x = bc * s + u
  <2>1. b * q = b * (c * s) + b * t /\ b * (c * s) = bc * s
    BY <1>2
  <2> QED
    BY <1>1, <1>2, <2>1
<1>8. bc \in Nat \ {0} /\ u \in 0 .. bc - 1
  BY <1>4, <1>5, <1>6
<1> HIDE DEF u, bc
<1>9. s = x \div bc
  BY <1>2, <1>7, <1>8, Division
<1> QED
  BY <1>3, <1>9 DEF bc

(* A power of two or more outgrows its exponent, and grows with it.        *)
LEMMA PowerGrows ==
  ASSUME NEW base \in Nat, base >= 2
  PROVE  /\ \A n \in 0 .. Word : Power(base)[n] > n
         /\ \A n, m \in 0 .. Word : n <= m => Power(base)[n] <= Power(base)[m]
<1> DEFINE h == Power(base)
<1>1. /\ h \in [0 .. Word -> Nat \ {0}] /\ h[0] = 1
      /\ \A n \in 1 .. Word : h[n] = base * h[n - 1]
  BY PowerFacts
<1> HIDE DEF h
<1>0. Word \in Nat
  BY ConsoleAssumption
<1>2. ASSUME NEW n \in Nat, n + 1 <= Word PROVE h[n + 1] >= 2 * h[n] /\ h[n] \in Nat \ {0}
  <2>1. n + 1 \in 1 .. Word /\ n \in 0 .. Word /\ (n + 1) - 1 = n
    BY <1>0, <1>2
  <2>2. h[n + 1] = base * h[n] /\ h[n] \in Nat \ {0}
    BY <1>1, <2>1
  <2> DEFINE v == h[n]
  <2>3. v \in Nat /\ h[n + 1] = base * v
    BY <2>2
  <2> HIDE DEF v
  <2>4. base * v >= 2 * v
    BY <2>3
  <2> QED
    BY <2>2, <2>3, <2>4 DEF v
<1>3. Nat \subseteq {n \in Nat : n <= Word => h[n] > n}
  <2> DEFINE T == {n \in Nat : n <= Word => h[n] > n}
  <2>1. 0 \in T
    BY <1>1
  <2>2. ASSUME NEW n \in Nat, n \in T PROVE n + 1 \in T
    <3> SUFFICES ASSUME n + 1 <= Word PROVE h[n + 1] > n + 1
      OBVIOUS
    <3>1. h[n + 1] >= 2 * h[n] /\ h[n] \in Nat /\ h[n] > n
      BY <1>0, <1>2, <2>2
    <3>2. h[n + 1] \in Nat
      BY <1>0, <1>1
    <3> QED
      BY <3>1, <3>2
  <2> HIDE DEF T
  <2>3. Nat \subseteq T
    BY <2>1, <2>2, Induction
  <2> QED
    BY <2>3 DEF T
<1>4. ASSUME NEW n \in 0 .. Word
      PROVE  Nat \subseteq {d \in Nat : n + d <= Word => h[n] <= h[n + d]}
  <2> DEFINE T == {d \in Nat : n + d <= Word => h[n] <= h[n + d]}
  <2>1. 0 \in T
    BY <1>0, <1>1
  <2>2. ASSUME NEW d \in Nat, d \in T PROVE d + 1 \in T
    <3> SUFFICES ASSUME n + (d + 1) <= Word PROVE h[n] <= h[n + (d + 1)]
      OBVIOUS
    <3> DEFINE e == n + d
    <3>1. e \in Nat /\ n + (d + 1) = e + 1 /\ e + 1 <= Word
      BY <1>0
    <3>2. h[n] <= h[e]
      BY <1>0, <2>2, <3>1
    <3> HIDE DEF e
    <3>3. h[e + 1] >= 2 * h[e] /\ h[e] \in Nat
      BY <1>2, <3>1
    <3>4. h[e + 1] \in Nat /\ h[n] \in Nat
      BY <1>0, <1>1, <3>1
    <3> QED
      BY <3>1, <3>2, <3>3, <3>4
  <2> HIDE DEF T
  <2>3. Nat \subseteq T
    BY <2>1, <2>2, Induction
  <2> QED
    BY <2>3 DEF T
<1>5. \A n \in 0 .. Word : h[n] > n
  BY <1>0, <1>3
<1>6. ASSUME NEW n \in 0 .. Word, NEW m \in 0 .. Word, n <= m PROVE h[n] <= h[m]
  <2>1. m - n \in Nat /\ n + (m - n) = m /\ m <= Word
    BY <1>0, <1>6
  <2>2. m - n \in {d \in Nat : n + d <= Word => h[n] <= h[n + d]}
    BY <1>4, <2>1
  <2> QED
    BY <2>1, <2>2
<1> QED
  BY <1>5, <1>6 DEF h

---------------------------------------------------------------------------
(* The digits of a number: those of the rest, and the last one.            *)
Chars == {Digit[n] : n \in 1 .. 16}
Last(x, base) == Digit[(x % base) + 1]

(* A last digit is a digit.                                                *)
LEMMA LastDigit ==
  ASSUME NEW base \in 2 .. 16, NEW x \in Nat
  PROVE  Last(x, base) \in Chars
<1>1. x % base \in 0 .. base - 1
  BY Division
<1> DEFINE r == x % base
<1>2. r + 1 \in 1 .. 16
  BY <1>1
<1> HIDE DEF r
<1>3. Digit[r + 1] \in Chars
  BY <1>2 DEF Chars
<1> QED
  BY <1>3 DEF Last, r

(* The first loop of printint ends, as the number gets smaller.            *)
LEMMA Smaller ==
  ASSUME NEW base \in Nat, base >= 2, NEW x \in Nat \ {0}
  PROVE  x \div base \in 0 .. x - 1
<1> DEFINE q == x \div base
<1>0. base \in Nat \ {0} /\ x \in Nat
  OBVIOUS
<1>1. q \in Nat /\ x % base \in 0 .. base - 1 /\ x = base * q + (x % base)
  BY <1>0, Division
<1>2. x >= base * q
  BY <1>1
<1> HIDE DEF q
<1>3. base * q >= 2 * q
  BY <1>1
<1> QED
  BY <1>1, <1>2, <1>3 DEF q

(* What the two loops of printint print, number by number.                 *)
DigitsAre(d, base) ==
  /\ d \in [0 .. Word -> Seq(Chars)]
  /\ \A x \in 0 .. Word :
       d[x] = IF x \div base = 0 THEN <<Last(x, base)>>
                                 ELSE Append(d[x \div base], Last(x, base))

(* There is such a function: each number's digits come from a smaller one. *)
LEMMA DigitsExist ==
  ASSUME NEW base \in 2 .. 16
  PROVE  \E d : /\ \A number : Digits(number, base) = d[number]
                /\ DigitsAre(d, base)
<1>0. Word \in Nat
  BY ConsoleAssumption
<1> DEFINE S == Seq(Chars)
           rest == [x \in 1 .. Word |-> x \div base]
           take == [x \in 1 .. Word |->
                      [v \in S \X S |-> IF x \div base = 0 THEN <<Last(x, base)>>
                                                           ELSE Append(v[1], Last(x, base))]]
           first == <<Last(0, base)>>
           Is(f) == f = [x \in 0 .. Word |-> IF x \div base = 0 THEN <<Last(x, base)>>
                                             ELSE Append(f[x \div base], Last(x, base))]
<1>1. ASSUME NEW x \in 0 .. Word PROVE Last(x, base) \in Chars
  BY <1>0, <1>1, LastDigit
<1>2. ASSUME NEW x \in 1 .. Word PROVE x \div base \in 0 .. x - 1
  <2>1. x \in Nat \ {0} /\ base \in Nat /\ base >= 2
    BY <1>0
  <2> QED
    BY <2>1, Smaller
<1>3. rest \in [1 .. Word -> Nat] /\ \A x \in 1 .. Word : rest[x] = x \div base /\ rest[x] < x
  BY <1>0, <1>2
<1>4. first \in S
  <2>1. Last(0, base) \in Chars
    BY <1>0, <1>1
  <2> QED
    BY <2>1
<1>5. ASSUME NEW x \in 1 .. Word, NEW v \in S, NEW w \in S
      PROVE  (IF x \div base = 0 THEN <<Last(x, base)>> ELSE Append(v, Last(x, base))) \in S
  <2>1. Last(x, base) \in Chars
    BY <1>1
  <2>2. <<Last(x, base)>> \in S /\ Append(v, Last(x, base)) \in S
    BY <2>1
  <2> QED
    BY <2>2
<1>6. take \in [1 .. Word -> [S \X S -> S]]
  <2> HIDE DEF S
  <2> QED
    BY <1>5
<1>7. ASSUME NEW x \in 1 .. Word, NEW v \in S, NEW w \in S
      PROVE  take[x][<<v, w>>] = IF x \div base = 0 THEN <<Last(x, base)>>
                                                  ELSE Append(v, Last(x, base))
  <2> HIDE DEF S
  <2> QED
    OBVIOUS
<1> HIDE DEF rest, take, first, S
<1>8. PICK f : Recurs(f, Word, S, first, rest, rest, take)
  BY <1>0, <1>3, <1>4, <1>6, Recursion
<1>9. f \in [0 .. Word -> S]
  BY <1>8 DEF Recurs
<1>10. ASSUME NEW x \in 0 .. Word
       PROVE  f[x] = IF x \div base = 0 THEN <<Last(x, base)>>
                                       ELSE Append(f[x \div base], Last(x, base))
  <2>1. f[x] = IF x = 0 THEN first ELSE take[x][<<f[rest[x]], f[rest[x]]>>]
    BY <1>8 DEF Recurs
  <2>2. CASE x = 0
    <3>1. 0 \div base = 0
      BY <1>0
    <3> QED
      BY <2>1, <2>2, <3>1 DEF first
  <2>3. CASE x # 0
    <3>1. x \in 1 .. Word
      BY <1>0, <2>3
    <3>2. rest[x] = x \div base /\ x \div base \in 0 .. Word
      BY <1>0, <1>2, <1>3, <3>1
    <3>3. f[rest[x]] \in S
      BY <1>9, <3>2
    <3> QED
      BY <1>7, <2>1, <2>3, <3>1, <3>2, <3>3
  <2> QED
    BY <2>2, <2>3
<1>11. Is(f)
  <2>1. f = [x \in 0 .. Word |-> f[x]]
    BY <1>9
  <2> QED
    BY <1>10, <2>1
<1> DEFINE h == CHOOSE g : Is(g)
<1>12. \A number : Digits(number, base) = h[number]
  BY Zenon DEF Digits, Last
<1>13. Is(h)
  <2> HIDE DEF Is
  <2> QED
    BY <1>11
<1> HIDE DEF h
<1>14. h = [x \in 0 .. Word |-> IF x \div base = 0 THEN <<Last(x, base)>>
                                ELSE Append(h[x \div base], Last(x, base))]
  BY <1>13
<1>15. \A x \in 0 .. Word : h[x] = IF x \div base = 0 THEN <<Last(x, base)>>
                                   ELSE Append(h[x \div base], Last(x, base))
  BY <1>14
<1>16. Nat \subseteq {x \in Nat : \A y \in 0 .. x : y <= Word => h[y] \in S}
  <2> DEFINE T == {x \in Nat : \A y \in 0 .. x : y <= Word => h[y] \in S}
  <2>0. ASSUME NEW y \in 0 .. Word, y # 0 => h[y \div base] \in S PROVE h[y] \in S
    <3>1. Last(y, base) \in Chars
      BY <1>1
    <3>2. <<Last(y, base)>> \in S
      BY <3>1 DEF S
    <3>3. CASE y \div base = 0
      BY <1>15, <3>2, <3>3
    <3>4. CASE y \div base # 0
      <4>1. y # 0
        BY <3>4
      <4>2. Append(h[y \div base], Last(y, base)) \in S
        BY <2>0, <3>1, <4>1 DEF S
      <4> QED
        BY <1>15, <3>4, <4>2
    <3> QED
      BY <3>3, <3>4
  <2>1. 0 \in T
    <3>1. 0 \in 0 .. Word
      BY <1>0
    <3> QED
      BY <2>0, <3>1
  <2>2. ASSUME NEW x \in Nat, x \in T PROVE x + 1 \in T
    <3> SUFFICES ASSUME NEW y \in 0 .. x + 1, y <= Word PROVE h[y] \in S
      OBVIOUS
    <3>1. y \in 0 .. Word
      BY <1>0
    <3>2. ASSUME y # 0 PROVE h[y \div base] \in S
      <4>1. y \in 1 .. Word /\ y - 1 <= x
        BY <3>1, <3>2
      <4>2. y \div base \in 0 .. y - 1
        BY <1>2, <4>1
      <4>3. y \div base \in 0 .. x /\ y \div base <= Word
        BY <1>0, <4>1, <4>2
      <4> QED
        BY <2>2, <4>3
    <3> QED
      BY <2>0, <3>1, <3>2
  <2> HIDE DEF T
  <2>3. Nat \subseteq T
    BY <2>1, <2>2, Induction
  <2> QED
    BY <2>3 DEF T
<1>17. \A x \in 0 .. Word : h[x] \in S
  BY <1>0, <1>16
<1>18. h \in [0 .. Word -> S]
  BY <1>14, <1>17
<1>19. DigitsAre(h, base)
  BY <1>15, <1>18 DEF DigitsAre, S
<1> QED
  BY <1>12, <1>19

---------------------------------------------------------------------------
(* A sequence of digits is the numeral of x: as long as x has places, each *)
(* digit x divided by the power of its place.                              *)
PlacesAre(x, base, n) ==
  /\ n \in 1 .. Word /\ x < Power(base)[n] /\ (n > 1 => Power(base)[n - 1] <= x)

Written(x, base, d) ==
  /\ PlacesAre(x, base, Len(d))
  /\ d \in Seq(Chars)
  /\ \A n \in 1 .. Len(d) : d[n] = Last(x \div Power(base)[Len(d) - n], base)

(* A number has one number of places.                                      *)
LEMMA PlacesUnique ==
  ASSUME NEW base \in 2 .. 16, NEW x \in Nat, NEW n, NEW m,
         PlacesAre(x, base, n), PlacesAre(x, base, m)
  PROVE  n = m
<1>0. Word \in Nat /\ base \in Nat \ {0} /\ base >= 2
  BY ConsoleAssumption
<1> DEFINE h == Power(base)
<1>1. /\ \A i, j \in 0 .. Word : i <= j => h[i] <= h[j]
      /\ h \in [0 .. Word -> Nat \ {0}]
  BY <1>0, PowerFacts, PowerGrows
<1> HIDE DEF h
<1>2. /\ n \in 1 .. Word /\ x < h[n] /\ (n > 1 => h[n - 1] <= x)
      /\ m \in 1 .. Word /\ x < h[m] /\ (m > 1 => h[m - 1] <= x)
  BY DEF PlacesAre, h
<1>3. ASSUME NEW i \in 1 .. Word, NEW j \in 1 .. Word, x < h[i], j > 1 => h[j - 1] <= x, i < j
      PROVE  FALSE
  <2>1. j > 1 /\ i <= j - 1 /\ i \in 0 .. Word /\ j - 1 \in 0 .. Word
    BY <1>0, <1>3
  <2>2. h[i] <= h[j - 1] /\ h[i] \in Nat /\ h[j - 1] \in Nat
    BY <1>1, <2>1
  <2> QED
    BY <1>3, <2>1, <2>2
<1>4. ~(n < m) /\ ~(m < n)
  BY <1>2, <1>3
<1> QED
  BY <1>0, <1>2, <1>4

(* One digit.                                                              *)
LEMMA OneDigit ==
  ASSUME NEW base \in 2 .. 16, NEW x \in 0 .. Word, x \div base = 0
  PROVE  Written(x, base, <<Last(x, base)>>)
<1>0. Word \in Nat /\ base \in Nat \ {0} /\ x \in Nat /\ 1 \in 1 .. Word /\ 0 \in 0 .. Word
  BY ConsoleAssumption
<1>1. x < base
  <2>1. x % base \in 0 .. base - 1 /\ x = base * (x \div base) + (x % base)
    BY <1>0, Division
  <2> QED
    BY <2>1
<1>2. Power(base)[1] = base /\ Power(base)[0] = 1
  <2>1. Power(base)[0] = 1 /\ Power(base)[1] = base * Power(base)[1 - 1]
    BY <1>0, PowerFacts
  <2>2. base * 1 = base
    BY <1>0
  <2> QED
    BY <2>1, <2>2
<1>3. Last(x, base) \in Chars
  BY <1>0, LastDigit
<1> DEFINE d == <<Last(x, base)>>
<1>4. d \in Seq(Chars) /\ Len(d) = 1 /\ d[1] = Last(x, base)
  BY <1>3
<1> HIDE DEF d
<1>5. PlacesAre(x, base, Len(d))
  BY <1>0, <1>1, <1>2, <1>4 DEF PlacesAre
<1>6. ASSUME NEW n \in 1 .. Len(d) PROVE d[n] = Last(x \div Power(base)[Len(d) - n], base)
  <2>1. n = 1 /\ Len(d) - n = 0
    BY <1>4
  <2>2. x \div 1 = x
    BY <1>0
  <2> QED
    BY <1>2, <1>4, <2>1, <2>2
<1>7. Written(x, base, d)
  BY <1>4, <1>5, <1>6 DEF Written
<1> QED
  BY <1>7 DEF d

(* One digit more.                                                         *)
LEMMA NextDigit ==
  ASSUME NEW base \in 2 .. 16, NEW x \in 0 .. Word, x \div base # 0, NEW r,
         Written(x \div base, base, r)
  PROVE  Written(x, base, Append(r, Last(x, base)))
<1> DEFINE h == Power(base)
           q == x \div base
           last == Last(x, base)
           d == Append(r, last)
           l == Len(r)
<1>0. Word \in Nat /\ base \in Nat \ {0} /\ base >= 2 /\ x \in Nat
  BY ConsoleAssumption
<1>1. /\ h \in [0 .. Word -> Nat \ {0}] /\ h[0] = 1
      /\ \A n \in 1 .. Word : h[n] = base * h[n - 1]
      /\ \A n \in 0 .. Word : h[n] > n
  BY <1>0, PowerFacts, PowerGrows
<1>2. q \in Nat /\ x % base \in 0 .. base - 1 /\ x = base * q + (x % base)
  BY <1>0, Division
<1>3. last \in Chars
  BY <1>0, LastDigit
<1>4. PlacesAre(q, base, l)
  BY DEF Written
<1>5. r \in Seq(Chars) /\ \A n \in 1 .. l : r[n] = Last(q \div h[l - n], base)
  BY DEF Written
<1>6. l \in 1 .. Word /\ q < h[l] /\ (l > 1 => h[l - 1] <= q)
  BY <1>4 DEF PlacesAre
<1>7. q # 0
  OBVIOUS
<1> HIDE DEF h
<1>8. \A n \in 1 .. Word : q \div h[n - 1] = x \div h[n]
  <2> SUFFICES ASSUME NEW n \in 1 .. Word PROVE q \div h[n - 1] = x \div h[n]
    OBVIOUS
  <2>1. h[n] = base * h[n - 1] /\ h[n - 1] \in Nat \ {0}
    BY <1>0, <1>1
  <2>2. q \div h[n - 1] = x \div (base * h[n - 1])
    BY <1>0, <2>1, DivisionTwice
  <2> QED
    BY <2>1, <2>2
<1> HIDE DEF q, last
<1>9. d \in Seq(Chars) /\ Len(d) = l + 1 /\ d[l + 1] = last /\ \A n \in 1 .. l : d[n] = r[n]
  BY <1>3, <1>5
<1> HIDE DEF d, l
<1>10. h[l] <= x
  <2>1. h[l] = base * h[l - 1] /\ h[l - 1] \in Nat /\ h[l] \in Nat
    BY <1>0, <1>1, <1>6
  <2>2. h[l - 1] <= q
    <3>1. CASE l > 1
      BY <1>6, <3>1
    <3>2. CASE l = 1
      BY <1>1, <1>2, <1>7, <3>2
    <3> QED
      BY <1>0, <1>6, <3>1, <3>2
  <2> DEFINE v == h[l - 1]
  <2>3. v \in Nat /\ v <= q /\ h[l] = base * v
    BY <2>1, <2>2
  <2> HIDE DEF v
  <2>4. base * v <= base * q
    BY <1>0, <1>2, <2>3
  <2> QED
    BY <1>0, <1>2, <2>3, <2>4
<1>11. l + 1 \in 1 .. Word
  <2>1. h[l] > l /\ h[l] \in Nat
    BY <1>0, <1>1, <1>6
  <2> QED
    BY <1>0, <1>6, <1>10, <2>1
<1>12. x < h[l + 1]
  <2>1. h[l + 1] = base * h[l] /\ h[l] \in Nat
    <3>1. (l + 1) - 1 = l /\ l \in 0 .. Word
      BY <1>0, <1>6
    <3> QED
      BY <1>1, <1>11, <3>1
  <2> DEFINE v == h[l]
  <2>2. v \in Nat /\ q + 1 <= v /\ h[l + 1] = base * v
    BY <1>2, <1>6, <2>1
  <2> HIDE DEF v
  <2>3. base * (q + 1) <= base * v /\ base * (q + 1) = base * q + base
    BY <1>0, <1>2, <2>2
  <2> QED
    BY <1>0, <1>2, <2>2, <2>3
<1>13. PlacesAre(x, base, Len(d))
  <2>1. (l + 1) - 1 = l
    BY <1>6
  <2> QED
    BY <1>9, <1>10, <1>11, <1>12, <2>1 DEF PlacesAre, h
<1>14. ASSUME NEW n \in 1 .. l + 1 PROVE d[n] = Last(x \div h[(l + 1) - n], base)
  <2>1. CASE n = l + 1
    <3>1. (l + 1) - n = 0 /\ x \div 1 = x
      BY <1>0, <1>6, <2>1
    <3> QED
      BY <1>1, <1>9, <2>1, <3>1 DEF last
  <2>2. CASE n # l + 1
    <3> DEFINE m == (l + 1) - n
    <3>1. n \in 1 .. l /\ m \in 1 .. Word /\ m - 1 = l - n
      BY <1>0, <1>6, <2>2
    <3> HIDE DEF m
    <3>2. d[n] = Last(q \div h[m - 1], base)
      BY <1>5, <1>9, <3>1 DEF l
    <3>3. q \div h[m - 1] = x \div h[m]
      BY <1>8, <3>1
    <3> QED
      BY <3>2, <3>3 DEF m
  <2> QED
    BY <2>1, <2>2
<1>15. Written(x, base, d)
  BY <1>9, <1>13, <1>14 DEF Written, h
<1> QED
  BY <1>15 DEF d, last

(* printint prints the numeral of every unsigned number.                   *)
LEMMA DigitsAreWritten ==
  ASSUME NEW base \in 2 .. 16, NEW x \in 0 .. Word
  PROVE  Written(x, base, Digits(x, base))
<1>0. Word \in Nat /\ Word > 0
  BY ConsoleAssumption
<1>1. PICK d : (\A number : Digits(number, base) = d[number]) /\ DigitsAre(d, base)
  BY DigitsExist
<1>2. ASSUME NEW y \in 0 .. Word, y \div base # 0 => Written(y \div base, base, d[y \div base])
      PROVE  Written(y, base, d[y])
  <2>1. d[y] = IF y \div base = 0 THEN <<Last(y, base)>> ELSE Append(d[y \div base], Last(y, base))
    BY <1>1 DEF DigitsAre
  <2>2. CASE y \div base = 0
    <3>1. Written(y, base, <<Last(y, base)>>)
      BY <2>2, OneDigit
    <3> QED
      BY <2>1, <2>2, <3>1
  <2>3. CASE y \div base # 0
    <3>1. Written(y, base, Append(d[y \div base], Last(y, base)))
      BY <1>2, <2>3, NextDigit
    <3> QED
      BY <2>1, <2>3, <3>1
  <2> QED
    BY <2>2, <2>3
<1> DEFINE T == {n \in Nat : \A y \in 0 .. n : y <= Word => Written(y, base, d[y])}
<1>3. 0 \in T
  <2>1. 0 \in 0 .. Word /\ 0 \div base = 0
    BY <1>0
  <2>2. Written(0, base, d[0])
    BY <1>2, <2>1
  <2> QED
    BY <2>2
<1>4. ASSUME NEW n \in Nat, n \in T PROVE n + 1 \in T
  <2> SUFFICES ASSUME NEW y \in 0 .. n + 1, y <= Word PROVE Written(y, base, d[y])
    OBVIOUS
  <2>1. y \in 0 .. Word
    BY <1>0
  <2>2. ASSUME y \div base # 0 PROVE Written(y \div base, base, d[y \div base])
    <3>1. y # 0
      BY <2>2
    <3>2. y \in Nat \ {0} /\ base \in Nat /\ base >= 2 /\ y - 1 <= n /\ y - 1 <= Word
      BY <1>0, <3>1
    <3>3. y \div base \in 0 .. y - 1
      BY <3>2, Smaller
    <3>4. y \div base \in 0 .. n /\ y \div base <= Word
      BY <1>0, <3>2, <3>3
    <3> QED
      BY <1>4, <3>4
  <2> QED
    BY <1>2, <2>1, <2>2
<1>5. Word \in T
  <2> HIDE DEF T
  <2> QED
    BY <1>0, <1>3, <1>4, Induction
<1>6. Written(x, base, d[x])
  BY <1>0, <1>5
<1> QED
  BY <1>1, <1>6

(* What printint prints is the numeral that the format promises.           *)
LEMMA DigitsAreNumeral ==
  ASSUME NEW base \in 2 .. 16, NEW x \in 0 .. Word
  PROVE  /\ Digits(x, base) = Numeral(x, base) /\ Digits(x, base) \in Seq(Chars)
         /\ PlacesAre(x, base, Len(Digits(x, base)))
<1> DEFINE d == Digits(x, base)
           l == Len(d)
<1>0. Word \in Nat /\ x \in Nat
  BY ConsoleAssumption
<1>1. /\ PlacesAre(x, base, l) /\ d \in Seq(Chars)
      /\ \A n \in 1 .. l : d[n] = Last(x \div Power(base)[l - n], base)
  BY DigitsAreWritten DEF Written
<1>2. d = [n \in 1 .. l |-> d[n]]
  BY <1>1
<1> HIDE DEF d, l
<1> DEFINE Fits(p) == /\ x < Power(base)[p]
                      /\ p > 1 => x >= Power(base)[p - 1]
           places == CHOOSE p \in 1 .. Word : Fits(p)
<1>3. l \in 1 .. Word /\ Fits(l)
  <2>1. l > 1 => Power(base)[l - 1] <= x
    BY <1>1 DEF PlacesAre
  <2>2. l > 1 => x >= Power(base)[l - 1]
    BY <2>1
  <2> QED
    BY <1>1, <2>2 DEF PlacesAre
<1>4. places \in 1 .. Word /\ Fits(places)
  <2> HIDE DEF Fits
  <2> QED
    BY <1>3
<1>5. PlacesAre(x, base, places)
  <2> HIDE DEF places
  <2>2. places > 1 => Power(base)[places - 1] <= x
    BY <1>4
  <2> QED
    BY <1>4, <2>2 DEF PlacesAre
<1>6. places = l
  <2> HIDE DEF places
  <2> QED
    BY <1>0, <1>1, <1>5, PlacesUnique
<1>7. places = Places(x, base)
  BY DEF Places
<1> HIDE DEF places
<1>8. Numeral(x, base) = [p \in 1 .. l |-> Last(x \div Power(base)[l - p], base)]
  BY <1>6, <1>7, Zenon DEF Numeral, Last
<1>9. [p \in 1 .. l |-> Last(x \div Power(base)[l - p], base)] = [n \in 1 .. l |-> d[n]]
  BY <1>1
<1> QED
  BY <1>1, <1>2, <1>8, <1>9 DEF d, l

---------------------------------------------------------------------------
(* What a conversion prints is what the format promises.                   *)
Glyphs == STRING \union Chars \union {"-", "0", "x", "b"}

(* Numbers in front of which nothing or one or two characters stand.       *)
LEMMA Prefixed ==
  ASSUME NEW d \in Seq(Chars)
  PROVE  /\ d \in Seq(Glyphs) /\ <<>> \o d = d
         /\ <<"-">> \o d \in Seq(Glyphs) /\ Len(<<"-">> \o d) = Len(d) + 1
         /\ <<"0", "x">> \o d \in Seq(Glyphs) /\ Len(<<"0", "x">> \o d) = Len(d) + 2
         /\ <<"0", "b">> \o d \in Seq(Glyphs) /\ Len(<<"0", "b">> \o d) = Len(d) + 2
<1>1. Chars \subseteq Glyphs
  BY DEF Glyphs
<1>2. d \in Seq(Glyphs)
  BY <1>1
<1>3. <<"-">> \in Seq(Glyphs) /\ Len(<<"-">>) = 1
  BY DEF Glyphs
<1>4. <<"0", "x">> \in Seq(Glyphs) /\ Len(<<"0", "x">>) = 2
  BY DEF Glyphs
<1>5. <<"0", "b">> \in Seq(Glyphs) /\ Len(<<"0", "b">>) = 2
  BY DEF Glyphs
<1>6. <<>> \o d = d
  OBVIOUS
<1> HIDE DEF Glyphs
<1> QED
  BY <1>2, <1>3, <1>4, <1>5, <1>6, ConcatProperties

(* The unsigned number that printint divides, and how long its digits are. *)
LEMMA NumberDigits ==
  ASSUME NEW base \in {2, 10, 16}, NEW x \in Nat, x < Word
  PROVE  /\ Digits(x, base) = Numeral(x, base) /\ Digits(x, base) \in Seq(Chars)
         /\ \A n \in 1 .. Word : x < Power(base)[n] => Len(Digits(x, base)) <= n
<1>0. Word \in Nat /\ base \in 2 .. 16 /\ base \in Nat \ {0} /\ base >= 2 /\ x \in 0 .. Word
  BY ConsoleAssumption
<1>1. /\ Digits(x, base) = Numeral(x, base) /\ Digits(x, base) \in Seq(Chars)
      /\ PlacesAre(x, base, Len(Digits(x, base)))
  BY <1>0, DigitsAreNumeral
<1> DEFINE l == Len(Digits(x, base))
           h == Power(base)
<1>2. l \in 1 .. Word /\ (l > 1 => h[l - 1] <= x)
  BY <1>1 DEF PlacesAre
<1>3. /\ h \in [0 .. Word -> Nat \ {0}]
      /\ \A n, m \in 0 .. Word : n <= m => h[n] <= h[m]
  BY <1>0, PowerFacts, PowerGrows
<1> HIDE DEF l, h
<1>4. ASSUME NEW n \in 1 .. Word, x < h[n] PROVE l <= n
  <2> SUFFICES ASSUME l > n PROVE FALSE
    BY <1>0, <1>2
  <2>1. l > 1 /\ l - 1 \in 0 .. Word /\ n \in 0 .. Word /\ n <= l - 1
    BY <1>0, <1>2
  <2>2. h[n] <= h[l - 1] /\ h[n] \in Nat /\ h[l - 1] \in Nat /\ h[l - 1] <= x
    BY <1>2, <1>3, <2>1
  <2> QED
    BY <1>4, <2>2
<1> QED
  BY <1>1, <1>4 DEF l, h

(* The smallest number is its own negative: its magnitude is not lost.     *)
LEMMA SignedNumber ==
  ASSUME NEW n \in -(Word \div 2) .. Word - (Word \div 2) - 1
  PROVE  /\ n \in Int /\ n % Word \in Nat /\ n % Word < Word
         /\ n < 0 => -n \in Nat /\ -n < Word /\ (-n) % Word = -n
<1>0. Word \in Nat \ {0}
  BY ConsoleAssumption
<1>1. Word \div 2 \in Nat /\ (Word > 1 => Word \div 2 < Word) /\ (Word = 1 => Word \div 2 = 0)
  BY <1>0
<1>2. n \in Int /\ n % Word \in 0 .. Word - 1
  BY <1>0, <1>1
<1>3. ASSUME n < 0 PROVE -n \in Nat /\ -n < Word
  BY <1>0, <1>1, <1>2, <1>3
<1>4. ASSUME n < 0 PROVE (-n) % Word = -n
  <2> DEFINE m == -n
  <2>1. m \in Nat /\ m < Word
    BY <1>3, <1>4
  <2> HIDE DEF m
  <2>2. m % Word = m
    BY <1>0, <2>1
  <2> QED
    BY <2>2 DEF m
<1> QED
  BY <1>0, <1>2, <1>3, <1>4

(* A character, a string, and a number of each base.                       *)
LEMMA ConvertedIsShown ==
  ASSUME NEW conversion \in Conversions, NEW arg \in Argument
  PROVE  /\ Converted(conversion, arg) = Shown(conversion, arg)
         /\ Converted(conversion, arg) \in Seq(Glyphs)
         /\ Spills(conversion, Converted(conversion, arg)) => conversion = "b"
<1> DEFINE n == arg.number
           u == n % Word
<1>0. /\ arg.char \in STRING /\ arg.string \in Seq(STRING)
      /\ n \in -(Word \div 2) .. Word - (Word \div 2) - 1
  BY DEF Argument
<1>1. /\ n \in Int /\ u \in Nat /\ u < Word
      /\ n < 0 => -n \in Nat /\ -n < Word /\ (-n) % Word = -n
  BY <1>0, SignedNumber
<1>2. /\ Buffer \in 2 .. Word /\ Word \in Nat
      /\ Word <= Power(10)[Buffer - 1] /\ Word <= Power(16)[Buffer]
      /\ Power(10) \in [0 .. Word -> Nat \ {0}] /\ Power(16) \in [0 .. Word -> Nat \ {0}]
  <2>1. 10 \in Nat \ {0} /\ 16 \in Nat \ {0}
    OBVIOUS
  <2>2. Power(10) \in [0 .. Word -> Nat \ {0}] /\ Power(16) \in [0 .. Word -> Nat \ {0}]
    BY <2>1, PowerFacts
  <2>3. Buffer \in 2 .. Word /\ Word \in Nat
    BY ConsoleAssumption
  <2>4. Word <= Power(10)[Buffer - 1] /\ Word <= Power(16)[Buffer]
    BY BufferAssumption
  <2> QED
    BY <2>2, <2>3, <2>4
<1>3. CASE conversion = "c"
  <2>1. Converted("c", arg) = <<arg.char>> /\ Shown("c", arg) = <<arg.char>>
    BY DEF Converted, Shown
  <2>2. <<arg.char>> \in Seq(Glyphs)
    BY <1>0 DEF Glyphs
  <2> QED
    BY <1>3, <2>1, <2>2 DEF Spills
<1>4. CASE conversion = "s"
  <2>1. Converted("s", arg) = arg.string /\ Shown("s", arg) = arg.string
    BY DEF Converted, Shown
  <2>2. arg.string \in Seq(Glyphs)
    <3>1. STRING \subseteq Glyphs
      BY DEF Glyphs
    <3> HIDE DEF Glyphs
    <3> QED
      BY <1>0, <3>1, SeqMonotonic
  <2> QED
    BY <1>4, <2>1, <2>2 DEF Spills
<1>5. CASE conversion = "d"
  <2> DEFINE m == IF n < 0 THEN -n ELSE u
             d == Digits(m, 10)
  <2>1. Converted("d", arg) = (IF n < 0 THEN <<"-">> \o Digits((-n) % Word, 10) ELSE Digits(u, 10))
    BY DEF Converted, PrintInt
  <2>2. Shown("d", arg) = (IF n < 0 THEN <<"-">> ELSE <<>>) \o Numeral(Magnitude("d", n), Base("d"))
    BY DEF Shown
  <2>3. Magnitude("d", n) = m /\ Base("d") = 10
    BY DEF Magnitude, Base
  <2>4. m \in Nat /\ m < Word
    BY <1>1
  <2>5. Converted("d", arg) = IF n < 0 THEN <<"-">> \o d ELSE d
    BY <1>1, <2>1
  <2> HIDE DEF m, n, u
  <2>6. d = Numeral(m, 10) /\ d \in Seq(Chars)
        /\ \A i \in 1 .. Word : m < Power(10)[i] => Len(d) <= i
    BY <2>4, NumberDigits
  <2>7. Len(d) <= Buffer - 1
    <3>1. Buffer - 1 \in 1 .. Word
      BY <1>2
    <3>2. Power(10)[Buffer - 1] \in Nat
      BY <1>2, <3>1
    <3> DEFINE p == Power(10)[Buffer - 1]
    <3>3. p \in Nat /\ Word <= p
      BY <1>2, <3>2
    <3> HIDE DEF p
    <3>4. m < p
      BY <1>2, <2>4, <3>3
    <3> HIDE DEF d
    <3> QED
      BY <2>6, <3>1, <3>4 DEF p
  <2> HIDE DEF d
  <2>8. /\ <<>> \o d = d /\ d \in Seq(Glyphs) /\ <<"-">> \o d \in Seq(Glyphs)
        /\ Len(<<"-">> \o d) = Len(d) + 1 /\ Len(d) \in Nat
    BY <2>6, Prefixed
  <2>9. Shown("d", arg) = (IF n < 0 THEN <<"-">> ELSE <<>>) \o d
    BY <2>2, <2>3, <2>6
  <2> DEFINE t == Converted("d", arg)
  <2>10. t = Shown("d", arg) /\ t \in Seq(Glyphs)
    BY <2>5, <2>8, <2>9
  <2>t. t = IF n < 0 THEN <<"-">> \o d ELSE d
    BY <2>5
  <2> HIDE DEF t
  <2>11. Len(t) <= Buffer
    BY <1>2, <2>t, <2>7, <2>8
  <2>12. ~Spills("d", t)
    <3>1. Len(t) \in Nat
      BY <2>10
    <3> QED
      BY <1>2, <2>11, <3>1 DEF Spills
  <2> QED
    BY <1>5, <2>10, <2>12 DEF t
<1>6. CASE conversion = "x"
  <2> DEFINE d == Digits(u, 16)
  <2>1. Converted("x", arg) = <<"0", "x">> \o d
    BY DEF Converted, PrintInt
  <2>2. Shown("x", arg) = <<"0", "x">> \o Numeral(Magnitude("x", n), Base("x"))
    BY DEF Shown
  <2>3. Magnitude("x", n) = u /\ Base("x") = 16
    BY DEF Magnitude, Base
  <2> HIDE DEF n, u
  <2>6. d = Numeral(u, 16) /\ d \in Seq(Chars)
        /\ \A i \in 1 .. Word : u < Power(16)[i] => Len(d) <= i
    BY <1>1, NumberDigits
  <2>7. Len(d) <= Buffer
    <3>1. Buffer \in 1 .. Word
      BY <1>2
    <3> DEFINE p == Power(16)[Buffer]
    <3>3. p \in Nat /\ Word <= p
      BY <1>2, <3>1
    <3> HIDE DEF p
    <3>4. u < p
      BY <1>1, <1>2, <3>3
    <3> HIDE DEF d
    <3> QED
      BY <2>6, <3>1, <3>4 DEF p
  <2> HIDE DEF d
  <2>8. /\ <<"0", "x">> \o d \in Seq(Glyphs)
        /\ Len(<<"0", "x">> \o d) = Len(d) + 2 /\ Len(d) \in Nat
    BY <2>6, Prefixed
  <2>9. Shown("x", arg) = <<"0", "x">> \o d
    BY <2>2, <2>3, <2>6
  <2> DEFINE t == Converted("x", arg)
  <2>10. t = Shown("x", arg) /\ t \in Seq(Glyphs) /\ Len(t) = Len(d) + 2
    BY <2>1, <2>8, <2>9
  <2> HIDE DEF t
  <2>12. ~Spills("x", t)
    BY <1>2, <2>7, <2>8, <2>10 DEF Spills
  <2> QED
    BY <1>6, <2>10, <2>12 DEF t
<1>7. CASE conversion = "b"
  <2> DEFINE d == Digits(u, 2)
  <2>1. Converted("b", arg) = <<"0", "b">> \o d
    BY DEF Converted, PrintInt
  <2>2. Shown("b", arg) = <<"0", "b">> \o Numeral(Magnitude("b", n), Base("b"))
    BY DEF Shown
  <2>3. Magnitude("b", n) = u /\ Base("b") = 2
    BY DEF Magnitude, Base
  <2> HIDE DEF n, u
  <2>6. d = Numeral(u, 2) /\ d \in Seq(Chars)
    BY <1>1, NumberDigits
  <2> HIDE DEF d
  <2>8. <<"0", "b">> \o d \in Seq(Glyphs)
    BY <2>6, Prefixed
  <2>9. Shown("b", arg) = <<"0", "b">> \o d
    BY <2>2, <2>3, <2>6
  <2> QED
    BY <1>7, <2>1, <2>8, <2>9
<1> QED
  BY <1>3, <1>4, <1>5, <1>6, <1>7 DEF Conversions

---------------------------------------------------------------------------
(* The end of a sequence, and the end of that end.                         *)
LEMMA EndFacts ==
  ASSUME NEW S, NEW s \in Seq(S), NEW n \in 0 .. Len(s)
  PROVE  /\ End(s, n) \in Seq(S) /\ Len(End(s, n)) = n
         /\ \A i \in 1 .. n : End(s, n)[i] = s[Len(s) - n + i]
         /\ End(s, Len(s)) = s /\ End(s, 0) = <<>>
<1> DEFINE l == Len(s)
           a == l - n + 1
<1>1. l \in Nat /\ a \in Int /\ a >= 1 /\ l - a + 1 = n /\ \A i \in Int : a + i - 1 = l - n + i
  OBVIOUS
<1>2. \A i \in a .. l : s[i] \in S
  BY <1>1
<1> HIDE DEF l, a
<1>3. /\ SubSeq(s, a, l) \in Seq(S)
      /\ Len(SubSeq(s, a, l)) = IF a <= l THEN l - a + 1 ELSE 0
      /\ \A i \in 1 .. l - a + 1 : SubSeq(s, a, l)[i] = s[a + i - 1]
  BY <1>1, <1>2, SubSeqProperties
<1>4. End(s, n) = SubSeq(s, a, l)
  BY DEF End, a, l
<1>5. Len(End(s, n)) = n
  BY <1>1, <1>3, <1>4
<1>6. \A i \in 1 .. n : End(s, n)[i] = s[l - n + i]
  BY <1>1, <1>3, <1>4
<1>7. End(s, l) = s
  <2>1. l - l + 1 = 1
    BY <1>1
  <2>2. SubSeq(s, 1, l) = s
    BY SubSeqFull DEF l
  <2> QED
    BY <2>1, <2>2 DEF End, l
<1>8. End(s, 0) = <<>>
  <2>1. l - 0 + 1 \in Int /\ l \in Int /\ l < l - 0 + 1
    BY <1>1
  <2>2. SubSeq(s, l - 0 + 1, l) = <<>>
    BY <2>1, SubSeqEmpty
  <2> QED
    BY <2>2 DEF End, l
<1> QED
  BY <1>3, <1>4, <1>5, <1>6, <1>7, <1>8 DEF l

(* What is left of an end after its first characters is a shorter end.     *)
LEMMA EndOfEnd ==
  ASSUME NEW S, NEW s \in Seq(S), NEW n \in 0 .. Len(s), NEW j \in 0 .. n
  PROVE  SubSeq(End(s, n), j + 1, n) = End(s, n - j)
<1> DEFINE e == End(s, n)
           g == SubSeq(e, j + 1, n)
           t == End(s, n - j)
<1>1. Len(s) \in Nat /\ n \in Nat /\ j \in Nat /\ n - j \in 0 .. Len(s)
  OBVIOUS
<1>2. e \in Seq(S) /\ Len(e) = n /\ \A i \in 1 .. n : e[i] = s[Len(s) - n + i]
  BY EndFacts
<1>3. t \in Seq(S) /\ Len(t) = n - j /\ \A i \in 1 .. n - j : t[i] = s[Len(s) - (n - j) + i]
  BY <1>1, EndFacts
<1> HIDE DEF e, t
<1>4. \A i \in j + 1 .. n : e[i] \in S
  BY <1>1, <1>2
<1>5. /\ g \in Seq(S) /\ Len(g) = IF j + 1 <= n THEN n - (j + 1) + 1 ELSE 0
      /\ \A i \in 1 .. n - (j + 1) + 1 : g[i] = e[(j + 1) + i - 1]
  BY <1>1, <1>4, SubSeqProperties
<1> HIDE DEF g
<1>6. Len(g) = n - j
  BY <1>1, <1>5
<1>7. ASSUME NEW i \in 1 .. n - j PROVE g[i] = t[i]
  <2>1. /\ i \in 1 .. n - (j + 1) + 1 /\ (j + 1) + i - 1 = j + i /\ j + i \in 1 .. n
        /\ Len(s) - n + (j + i) = Len(s) - (n - j) + i
    BY <1>1
  <2> QED
    BY <1>2, <1>3, <1>5, <2>1
<1>8. g = t
  BY <1>3, <1>5, <1>6, <1>7, SeqEqual
<1> QED
  BY <1>8 DEF g, t, e

(* An end without its first element.                                       *)
LEMMA EndTail ==
  ASSUME NEW S, NEW s \in Seq(S), NEW n \in 1 .. Len(s)
  PROVE  /\ Tail(End(s, n)) = End(s, n - 1) /\ End(s, n) # <<>>
         /\ Head(End(s, n)) = End(s, n)[1] /\ End(s, n)[1] \in S
<1> DEFINE e == End(s, n)
<1>1. n \in 0 .. Len(s) /\ n \in Nat /\ n >= 1 /\ 1 \in 0 .. n /\ 1 + 1 = 2
  OBVIOUS
<1>2. e \in Seq(S) /\ Len(e) = n
  BY <1>1, EndFacts
<1>3. SubSeq(e, 1 + 1, n) = End(s, n - 1)
  BY <1>1, EndOfEnd
<1> HIDE DEF e
<1>4. e # <<>> /\ Head(e) = e[1] /\ e[1] \in S
  BY <1>1, <1>2
<1>5. Tail(e) = SubSeq(e, 2, Len(e))
  BY <1>2, <1>4, TailIsSubSeq
<1> QED
  BY <1>1, <1>2, <1>3, <1>4, <1>5 DEF e

---------------------------------------------------------------------------
(* What a format prints, from what its shorter ends print.                 *)
RenderStep(F, A, R, n, m) ==
  IF n = 0 THEN <<>>
  ELSE IF End(F, n)[1] # "%" THEN <<End(F, n)[1]>> \o R[n - 1][m]
  ELSE IF n = 1 THEN End(F, n)
  ELSE IF End(F, n)[2] = "%" THEN <<"%">> \o R[n - 2][m]
  ELSE IF End(F, n)[2] \in Conversions /\ m > 0
    THEN Shown(End(F, n)[2], A[Len(A) - m + 1]) \o R[n - 2][m - 1]
  ELSE End(F, n)

(* The same, from what the ends one and two characters shorter print.      *)
Rendering(F, A, n, m, u, w) ==
  IF End(F, n)[1] # "%" THEN <<End(F, n)[1]>> \o u[m]
  ELSE IF n = 1 THEN End(F, n)
  ELSE IF End(F, n)[2] = "%" THEN <<"%">> \o w[m]
  ELSE IF End(F, n)[2] \in Conversions /\ m > 0
    THEN Shown(End(F, n)[2], A[Len(A) - m + 1]) \o w[m - 1]
  ELSE End(F, n)

(* It prints characters.                                                   *)
LEMMA RenderingType ==
  ASSUME NEW F \in Seq(STRING), NEW A \in Seq(Argument),
         NEW n \in 1 .. Len(F), NEW m \in 0 .. Len(A),
         NEW u \in [0 .. Len(A) -> Seq(Glyphs)], NEW w \in [0 .. Len(A) -> Seq(Glyphs)]
  PROVE  Rendering(F, A, n, m, u, w) \in Seq(Glyphs)
<1> DEFINE e == End(F, n)
<1>1. n \in 0 .. Len(F) /\ n \in Nat /\ n >= 1
  OBVIOUS
<1>2. e \in Seq(STRING) /\ Len(e) = n
  BY <1>1, EndFacts
<1>3. STRING \subseteq Glyphs
  BY DEF Glyphs
<1> HIDE DEF e, Glyphs
<1>4. e \in Seq(Glyphs)
  BY <1>2, <1>3, SeqMonotonic
<1>5. e[1] \in Glyphs /\ <<e[1]>> \in Seq(Glyphs)
  BY <1>1, <1>2, <1>4
<1>6. u[m] \in Seq(Glyphs) /\ w[m] \in Seq(Glyphs)
  OBVIOUS
<1>7. <<e[1]>> \o u[m] \in Seq(Glyphs)
  BY <1>5, <1>6, ConcatProperties
<1>8. CASE e[1] # "%"
  BY <1>7, <1>8 DEF Rendering, e
<1>9. CASE e[1] = "%" /\ n = 1
  BY <1>4, <1>9 DEF Rendering, e
<1>10. CASE e[1] = "%" /\ n # 1 /\ e[2] = "%"
  <2>1. <<"%">> \o w[m] \in Seq(Glyphs)
    BY <1>5, <1>6, <1>10, ConcatProperties
  <2> QED
    BY <1>10, <2>1 DEF Rendering, e
<1>11. CASE e[1] = "%" /\ n # 1 /\ e[2] # "%" /\ e[2] \in Conversions /\ m > 0
  <2>1. Len(A) - m + 1 \in 1 .. Len(A) /\ m - 1 \in 0 .. Len(A)
    BY <1>11
  <2>2. A[Len(A) - m + 1] \in Argument
    BY <2>1, ElementOfSeq
  <2>3. Shown(e[2], A[Len(A) - m + 1]) \in Seq(Glyphs)
    BY <1>11, <2>2, ConvertedIsShown
  <2>4. w[m - 1] \in Seq(Glyphs)
    BY <2>1
  <2>5. Shown(e[2], A[Len(A) - m + 1]) \o w[m - 1] \in Seq(Glyphs)
    BY <2>3, <2>4, ConcatProperties
  <2> QED
    BY <1>11, <2>5 DEF Rendering, e
<1>12. CASE e[1] = "%" /\ n # 1 /\ e[2] # "%" /\ ~(e[2] \in Conversions /\ m > 0)
  BY <1>4, <1>12 DEF Rendering, e
<1> QED
  BY <1>8, <1>9, <1>10, <1>11, <1>12

(* The equation of Renders, whatever the format and its arguments.         *)
LEMMA RendersFacts ==
  ASSUME NEW F \in Seq(STRING), NEW A \in Seq(Argument), NEW n \in 0 .. Len(F), NEW m \in 0 .. Len(A)
  PROVE  /\ Renders(F, A)[n][m] = RenderStep(F, A, Renders(F, A), n, m)
         /\ Renders(F, A)[n][m] \in Seq(Glyphs)
<1> DEFINE N == Len(F)
           M == Len(A)
           S == [0 .. M -> Seq(Glyphs)]
           nothing == [i \in 0 .. M |-> <<>>]
           one == [i \in 1 .. N |-> i - 1]
           two == [i \in 1 .. N |-> IF i = 1 THEN 0 ELSE i - 2]
           take == [i \in 1 .. N |->
                      [v \in S \X S |-> [j \in 0 .. M |-> Rendering(F, A, i, j, v[1], v[2])]]]
           Is(f) == f = [i \in 0 .. N |-> [j \in 0 .. M |-> RenderStep(F, A, f, i, j)]]
<1>0. N \in Nat /\ M \in Nat
  OBVIOUS
<1>1. Renders(F, A) = CHOOSE f : Is(f)
  BY Zenon DEF Renders, RenderStep
<1>2. ASSUME NEW i \in 1 .. N, NEW u \in S, NEW w \in S
      PROVE  [j \in 0 .. M |-> Rendering(F, A, i, j, u, w)] \in S
  <2>1. ASSUME NEW j \in 0 .. M PROVE Rendering(F, A, i, j, u, w) \in Seq(Glyphs)
    BY RenderingType
  <2> QED
    BY <2>1
<1> HIDE DEF N, M
<1>3. nothing \in S
  <2>1. <<>> \in Seq(Glyphs)
    BY EmptySeq
  <2> QED
    BY <2>1
<1>4. /\ one \in [1 .. N -> Nat] /\ two \in [1 .. N -> Nat]
      /\ \A i \in 1 .. N : one[i] = i - 1 /\ two[i] = IF i = 1 THEN 0 ELSE i - 2
      /\ \A i \in 1 .. N : one[i] < i /\ two[i] < i
  BY <1>0
<1>5. take \in [1 .. N -> [S \X S -> S]]
  <2> HIDE DEF S
  <2> QED
    BY <1>2
<1>6. ASSUME NEW i \in 1 .. N, NEW u \in S, NEW w \in S
      PROVE  take[i][<<u, w>>] = [j \in 0 .. M |-> Rendering(F, A, i, j, u, w)]
  <2> HIDE DEF S
  <2> QED
    OBVIOUS
<1>7. \A j \in 0 .. M : nothing[j] = <<>>
  OBVIOUS
<1>7a. nothing = [j \in 0 .. M |-> <<>>]
  OBVIOUS
<1> HIDE DEF nothing, one, two, take, S
<1>8. PICK f : Recurs(f, N, S, nothing, one, two, take)
  BY <1>0, <1>3, <1>4, <1>5, Recursion
<1>9. f \in [0 .. N -> S]
  BY <1>8 DEF Recurs
<1>10. ASSUME NEW g, NEW i \in 1 .. N, NEW j \in 0 .. M
       PROVE  RenderStep(F, A, g, i, j) = Rendering(F, A, i, j, g[one[i]], g[two[i]])
  <2>1. i # 0 /\ one[i] = i - 1 /\ (i # 1 => two[i] = i - 2)
    BY <1>0, <1>4
  <2> QED
    BY <2>1, Zenon DEF RenderStep, Rendering
<1>11. ASSUME NEW i \in 0 .. N
       PROVE  f[i] = [j \in 0 .. M |-> RenderStep(F, A, f, i, j)]
  <2>1. f[i] = IF i = 0 THEN nothing ELSE take[i][<<f[one[i]], f[two[i]]>>]
    BY <1>8 DEF Recurs
  <2>2. CASE i = 0
    <3>1. \A j \in 0 .. M : RenderStep(F, A, f, i, j) = <<>>
      BY <2>2 DEF RenderStep
    <3>2. f[i] = nothing
      BY <2>1, <2>2
    <3> QED
      BY <1>7a, <3>1, <3>2
  <2>3. CASE i # 0
    <3>1. i \in 1 .. N /\ one[i] \in 0 .. N /\ two[i] \in 0 .. N
      BY <1>0, <1>4, <2>3
    <3>2. f[one[i]] \in S /\ f[two[i]] \in S
      BY <1>9, <3>1
    <3>3. f[i] = [j \in 0 .. M |-> Rendering(F, A, i, j, f[one[i]], f[two[i]])]
      BY <1>6, <2>1, <2>3, <3>1, <3>2
    <3>4. \A j \in 0 .. M : RenderStep(F, A, f, i, j) = Rendering(F, A, i, j, f[one[i]], f[two[i]])
      BY <1>10, <3>1
    <3> QED
      BY <3>3, <3>4
  <2> QED
    BY <2>2, <2>3
<1>12. Is(f)
  <2>1. f = [i \in 0 .. N |-> f[i]]
    BY <1>9
  <2> QED
    BY <1>11, <2>1
<1> DEFINE h == CHOOSE g : Is(g)
<1>13. Is(h)
  <2> HIDE DEF Is
  <2> QED
    BY <1>12
<1>14. Renders(F, A) = h
  BY <1>1
<1> HIDE DEF h
<1>15. h = [i \in 0 .. N |-> [j \in 0 .. M |-> RenderStep(F, A, h, i, j)]]
  BY <1>13
<1>16. \A i \in 0 .. N : h[i] = [j \in 0 .. M |-> RenderStep(F, A, h, i, j)]
  BY <1>15
<1>17. \A i \in 0 .. N : \A j \in 0 .. M : h[i][j] = RenderStep(F, A, h, i, j)
  BY <1>16
<1>18. ASSUME NEW i \in 1 .. N, h[one[i]] \in S, h[two[i]] \in S PROVE h[i] \in S
  <2>1. i \in 0 .. N
    BY <1>0
  <2>2. \A j \in 0 .. M : RenderStep(F, A, h, i, j) = Rendering(F, A, i, j, h[one[i]], h[two[i]])
    BY <1>10
  <2>3. h[i] = [j \in 0 .. M |-> RenderStep(F, A, h, i, j)]
    BY <1>16, <2>1
  <2>4. h[i] = [j \in 0 .. M |-> Rendering(F, A, i, j, h[one[i]], h[two[i]])]
    BY <2>2, <2>3
  <2> QED
    BY <1>2, <1>18, <2>4
<1>19. h[0] \in S
  <2>1. 0 \in 0 .. N
    BY <1>0
  <2>2. \A j \in 0 .. M : RenderStep(F, A, h, 0, j) = <<>>
    BY DEF RenderStep
  <2>3. h[0] = [j \in 0 .. M |-> <<>>]
    BY <1>16, <2>1, <2>2
  <2> QED
    BY <1>3, <1>7a, <2>3
<1> DEFINE T == {i \in Nat : \A j \in 0 .. i : j <= N => h[j] \in S}
<1>20. 0 \in T
  BY <1>19
<1>21. ASSUME NEW i \in Nat, i \in T PROVE i + 1 \in T
  <2> SUFFICES ASSUME NEW j \in 0 .. i + 1, j <= N PROVE h[j] \in S
    OBVIOUS
  <2>1. CASE j = 0
    BY <1>19, <2>1
  <2>2. CASE j # 0
    <3>1. j \in 1 .. N
      BY <1>0, <2>2
    <3>2. /\ one[j] \in 0 .. i /\ one[j] <= N /\ two[j] \in 0 .. i /\ two[j] <= N
      BY <1>0, <1>4, <3>1
    <3>3. h[one[j]] \in S /\ h[two[j]] \in S
      BY <1>21, <3>2
    <3> QED
      BY <1>18, <3>1, <3>3
  <2> QED
    BY <2>1, <2>2
<1>22. Nat \subseteq T
  <2> HIDE DEF T
  <2> QED
    BY <1>20, <1>21, Induction
<1>23. n \in 0 .. N /\ m \in 0 .. M
  BY DEF N, M
<1>24. h[n] \in S
  BY <1>0, <1>22, <1>23
<1>25. h[n][m] \in Seq(Glyphs)
  BY <1>23, <1>24 DEF S
<1> QED
  BY <1>14, <1>17, <1>23, <1>25

---------------------------------------------------------------------------
(* A run of characters other than "%" is printed as it stands.             *)
LEMMA LiteralRun ==
  ASSUME NEW F \in Seq(STRING), NEW A \in Seq(Argument),
         NEW n \in 0 .. Len(F), NEW m \in 0 .. Len(A), NEW j \in 0 .. n,
         \A i \in 1 .. j : End(F, n)[i] # "%"
  PROVE  Renders(F, A)[n][m] = SubSeq(End(F, n), 1, j) \o Renders(F, A)[n - j][m]
<1> DEFINE R == Renders(F, A)
           e == End(F, n)
           Good(i) == R[n][m] = SubSeq(e, 1, i) \o R[n - i][m]
           T == {i \in Nat : i <= j => Good(i)}
<1>0. Len(F) \in Nat /\ n \in Nat /\ j \in Nat /\ j <= n /\ n <= Len(F)
  OBVIOUS
<1>1. e \in Seq(STRING) /\ Len(e) = n /\ \A i \in 1 .. n : e[i] = F[Len(F) - n + i]
  BY EndFacts
<1>2. \A i \in 0 .. Len(F) : /\ R[i][m] = RenderStep(F, A, R, i, m)
                             /\ R[i][m] \in Seq(Glyphs)
  BY RendersFacts
<1>3. STRING \subseteq Glyphs
  BY DEF Glyphs
<1> HIDE DEF R, e
<1>4. e \in Seq(Glyphs)
  BY <1>1, <1>3, SeqMonotonic
<1>5. ASSUME NEW i \in 0 .. n PROVE SubSeq(e, 1, i) \in Seq(Glyphs)
  <2>1. \A k \in 1 .. i : e[k] \in Glyphs
    BY <1>0, <1>1, <1>4
  <2> QED
    BY <2>1, SubSeqProperties
<1>6. 0 \in T
  <2>1. SubSeq(e, 1, 0) = <<>>
    BY SubSeqEmpty
  <2>2. n - 0 = n /\ <<>> \o R[n][m] = R[n][m]
    BY <1>0, <1>2, ConcatEmptySeq
  <2>3. Good(0)
    BY <2>1, <2>2
  <2> HIDE DEF Good
  <2> QED
    BY <2>3
<1>7. ASSUME NEW i \in Nat, i \in T PROVE i + 1 \in T
  <2> HIDE DEF Good
  <2> SUFFICES ASSUME i + 1 <= j PROVE Good(i + 1)
    OBVIOUS
  <2> DEFINE l == n - i
  <2>1. /\ l \in 0 .. Len(F) /\ l \in 1 .. Len(F) /\ l # 0 /\ l - 1 \in 0 .. Len(F)
        /\ n - (i + 1) = l - 1
        /\ i \in 0 .. n /\ i + 1 \in 1 .. n /\ i + 1 \in 1 .. j /\ 1 \in 1 .. l
        /\ Len(F) - l + 1 = Len(F) - n + (i + 1)
    BY <1>0
  <2>g. Good(i)
    BY <1>0, <1>7
  <2>2. R[n][m] = SubSeq(e, 1, i) \o R[l][m]
    BY <2>g DEF Good
  <2> HIDE DEF l
  <2>3. End(F, l)[1] = e[i + 1]
    <3>1. End(F, l)[1] = F[Len(F) - l + 1]
      BY <2>1, EndFacts
    <3>2. e[i + 1] = F[Len(F) - n + (i + 1)]
      BY <1>1, <2>1
    <3> QED
      BY <2>1, <3>1, <3>2
  <2>4. e[i + 1] # "%"
    BY <2>1 DEF e
  <2>5. R[l][m] = <<e[i + 1]>> \o R[l - 1][m]
    <3>1. R[l][m] = RenderStep(F, A, R, l, m)
      BY <1>2, <2>1
    <3> QED
      BY <2>1, <2>3, <2>4, <3>1 DEF RenderStep
  <2>6. SubSeq(e, 1, i + 1) = SubSeq(e, 1, i) \o <<e[i + 1]>>
    <3>1. 1 \in 1 .. Len(e) /\ i + 1 \in 1 .. Len(e) /\ (i + 1) - 1 = i
      BY <1>0, <1>1, <2>1
    <3> QED
      BY <1>1, <3>1, SubSeqRecursiveSecond
  <2> DEFINE a == SubSeq(e, 1, i)
             b == <<e[i + 1]>>
             c == R[l - 1][m]
  <2>7. a \in Seq(Glyphs)
    BY <1>5, <2>1
  <2>8. b \in Seq(Glyphs)
    <3>1. e[i + 1] \in Glyphs
      BY <1>1, <1>4, <2>1
    <3> QED
      BY <3>1
  <2>9. c \in Seq(Glyphs)
    BY <1>2, <2>1
  <2>10. R[n][m] = a \o (b \o c) /\ SubSeq(e, 1, i + 1) = a \o b /\ R[n - (i + 1)][m] = c
    BY <2>1, <2>2, <2>5, <2>6
  <2> HIDE DEF a, b, c
  <2>11. (a \o b) \o c = a \o (b \o c)
    BY <2>7, <2>8, <2>9, ConcatAssociative
  <2>12. R[n][m] = SubSeq(e, 1, i + 1) \o R[n - (i + 1)][m]
    BY <2>10, <2>11
  <2> QED
    BY <2>12 DEF Good
<1>8. Nat \subseteq T
  <2> HIDE DEF T
  <2> QED
    BY <1>6, <1>7, Induction
<1>9. Good(j)
  <2> HIDE DEF Good
  <2> QED
    BY <1>0, <1>8
<1> QED
  BY <1>9 DEF R, e

(* The run that printf cuts off: up to the next "%" or the end.            *)
LEMMA RunFacts ==
  ASSUME NEW u \in Seq(STRING), u # <<>>
  PROVE  \E j \in 1 .. Len(u) : /\ Run(u) = SubSeq(u, 1, j) /\ Len(Run(u)) = j
                                /\ \A i \in 2 .. j : u[i] # "%"
<1> DEFINE l == Len(u)
           Ends(j) == j = l \/ u[j + 1] = "%"
           Fits(j) == Ends(j) /\ \A i \in 2 .. j : u[i] # "%"
           run == CHOOSE j \in 1 .. l : Fits(j)
           U == {j \in 1 .. l : Ends(j)}
<1>1. l \in Nat \ {0} /\ \A i \in 1 .. l : u[i] \in STRING
  OBVIOUS
<1>2. U \subseteq Nat /\ l \in U
  BY <1>1
<1>3. PICK j \in U : \A i \in U : j <= i
  <2> HIDE DEF U
  <2> QED
    BY <1>2, Least
<1>4. j \in 1 .. l /\ Fits(j)
  <2>1. j \in 1 .. l /\ Ends(j)
    BY <1>3
  <2>2. ASSUME NEW i \in 2 .. j PROVE u[i] # "%"
    <3>1. i - 1 \in 1 .. l /\ i - 1 < j /\ (i - 1) + 1 = i
      BY <1>1, <2>1
    <3>2. i - 1 \notin U
      <4> HIDE DEF U
      <4> QED
        BY <1>2, <1>3, <3>1
    <3> QED
      BY <3>1, <3>2
  <2> QED
    BY <2>1, <2>2
<1>5. run \in 1 .. l /\ Fits(run)
  <2> HIDE DEF Fits, l
  <2> QED
    BY <1>4
<1>6. Run(u) = SubSeq(u, 1, run)
  BY Zenon DEF Run
<1> HIDE DEF run
<1>7. \A i \in 1 .. run : u[i] \in STRING
  BY <1>1, <1>5
<1>8. Len(SubSeq(u, 1, run)) = run
  <2>1. /\ run \in Int /\ 1 <= run /\ run - 1 + 1 = run
        /\ Len(SubSeq(u, 1, run)) = IF 1 <= run THEN run - 1 + 1 ELSE 0
    BY <1>1, <1>5, <1>7, SubSeqProperties
  <2> QED
    BY <2>1
<1> QED
  BY <1>5, <1>6, <1>8

(* Concatenation under a name that the provers do not expand.              *)
Cat(s, t) == s \o t

(* Which of two concatenations is done first does not matter.              *)
LEMMA Regroup ==
  ASSUME NEW S, NEW s \in Seq(S), NEW t \in Seq(S), NEW r \in Seq(S)
  PROVE  Cat(Cat(s, t), r) = Cat(s, Cat(t, r))
BY ConcatAssociative DEF Cat

(* A piece without a conversion, and what it leaves.                       *)
LiteralText(F, A, n, m, u) ==
  \E k \in 0 .. Len(F) :
    /\ SubSeq(u, Len(Run(u)) + 1, Len(u)) = End(F, k) /\ k < n
    /\ Renders(F, A)[n][m] = Run(u) \o Renders(F, A)[k][m]
    /\ Run(u) \in Seq(Glyphs)

(* Any format that begins with a literal piece has such a piece.           *)
LEMMA LiteralPieceText ==
  ASSUME NEW F \in Seq(STRING), NEW A \in Seq(Argument),
         NEW n \in 1 .. Len(F), NEW m \in 0 .. Len(A), Literal(End(F, n))
  PROVE  LiteralText(F, A, n, m, Unescaped(End(F, n)))
<1> DEFINE R == Renders(F, A)
           e == End(F, n)
           u == Unescaped(e)
<1>0. Len(F) \in Nat /\ n \in Nat /\ n >= 1 /\ n <= Len(F) /\ n \in 0 .. Len(F)
  OBVIOUS
<1>1. e \in Seq(STRING) /\ Len(e) = n /\ \A i \in 1 .. n : e[i] = F[Len(F) - n + i]
  BY <1>0, EndFacts
<1>2. \A i \in 0 .. Len(F) : /\ R[i][m] = RenderStep(F, A, R, i, m)
                             /\ R[i][m] \in Seq(Glyphs)
  BY RendersFacts
<1>3. Tail(e) = End(F, n - 1)
  BY EndTail
<1>4. Literal(e)
  OBVIOUS
<1> HIDE DEF R, e
<1> DEFINE Front(l) == u = End(F, l) /\ R[n][m] = <<u[1]>> \o R[l - 1][m]
<1>5. PICK l \in 1 .. n : Front(l)
  <2>1. R[n][m] = RenderStep(F, A, R, n, m)
    BY <1>0, <1>2
  <2>2. CASE e[1] # "%"
    <3>1. u = e
      BY <2>2 DEF Unescaped
    <3>2. R[n][m] = <<e[1]>> \o R[n - 1][m]
      BY <1>0, <2>1, <2>2 DEF RenderStep, e
    <3>3. Front(n)
      BY <3>1, <3>2 DEF e
    <3> HIDE DEF Front
    <3> QED
      BY <1>0, <3>3
  <2>3. CASE e[1] = "%"
    <3>1. n > 1 /\ e[2] = "%" /\ u = Tail(e)
      BY <1>1, <1>4, <2>3 DEF Literal, Unescaped
    <3>2. /\ n - 1 \in 1 .. n /\ n - 1 \in 0 .. Len(F) /\ 2 \in 1 .. n /\ 1 \in 1 .. n - 1
          /\ Len(F) - (n - 1) + 1 = Len(F) - n + 2 /\ (n - 1) - 1 = n - 2
      BY <1>0, <3>1
    <3>3. u[1] = "%"
      <4>1. End(F, n - 1)[1] = F[Len(F) - (n - 1) + 1]
        BY <3>2, EndFacts
      <4>2. e[2] = F[Len(F) - n + 2]
        BY <1>1, <3>2
      <4> QED
        BY <1>3, <3>1, <3>2, <4>1, <4>2
    <3>4. R[n][m] = <<"%">> \o R[n - 2][m]
      BY <1>0, <2>1, <2>3, <3>1 DEF RenderStep, e
    <3>5. Front(n - 1)
      <4>1. R[(n - 1) - 1][m] = R[n - 2][m]
        BY <3>2
      <4>2. <<u[1]>> = <<"%">> /\ u = End(F, n - 1)
        BY <1>3, <3>1, <3>3
      <4> QED
        BY <3>4, <4>1, <4>2
    <3> HIDE DEF Front
    <3> QED
      BY <3>2, <3>5
  <2> QED
    BY <2>2, <2>3
<1>5a. u = End(F, l) /\ R[n][m] = <<u[1]>> \o R[l - 1][m]
  BY <1>5
<1> DEFINE g == End(F, l - 1)
<1>6. l \in 0 .. Len(F) /\ l - 1 \in 0 .. Len(F) /\ l \in Nat /\ l >= 1 /\ l \in 1 .. Len(F)
  BY <1>0
<1>7. /\ u \in Seq(STRING) /\ Len(u) = l
      /\ \A i \in 1 .. l : u[i] = F[Len(F) - l + i]
  <2> HIDE DEF u
  <2> QED
    BY <1>5a, <1>6, EndFacts
<1>8. /\ g \in Seq(STRING) /\ Len(g) = l - 1
      /\ \A i \in 1 .. l - 1 : g[i] = F[Len(F) - (l - 1) + i]
  BY <1>6, EndFacts
<1> HIDE DEF u, g
<1>9. u # <<>>
  BY <1>6, <1>7
<1>10. PICK j \in 1 .. Len(u) : /\ Run(u) = SubSeq(u, 1, j) /\ Len(Run(u)) = j
                                /\ \A i \in 2 .. j : u[i] # "%"
  BY <1>7, <1>9, RunFacts
<1>11. j \in 1 .. l /\ j \in 0 .. l /\ j - 1 \in 0 .. l - 1 /\ (l - 1) - (j - 1) = l - j
       /\ l - j \in 0 .. Len(F) /\ l - j < n
  BY <1>0, <1>6, <1>7
<1>12. ASSUME NEW i \in 1 .. l - 1 PROVE g[i] = u[i + 1]
  <2>1. i + 1 \in 1 .. l /\ Len(F) - (l - 1) + i = Len(F) - l + (i + 1)
    BY <1>0, <1>6
  <2>2. g[i] = F[Len(F) - (l - 1) + i]
    BY <1>8
  <2>3. u[i + 1] = F[Len(F) - l + (i + 1)]
    BY <1>7, <2>1
  <2> QED
    BY <2>1, <2>2, <2>3
<1>13. ASSUME NEW i \in 1 .. j - 1 PROVE g[i] # "%"
  <2>1. i \in 1 .. l - 1 /\ i + 1 \in 2 .. j
    BY <1>6, <1>11
  <2> QED
    BY <1>10, <1>12, <2>1
<1>14. R[l - 1][m] = SubSeq(g, 1, j - 1) \o R[l - j][m]
  <2>1. R[l - 1][m] = SubSeq(g, 1, j - 1) \o R[(l - 1) - (j - 1)][m]
    BY <1>6, <1>11, <1>13, LiteralRun DEF g, R
  <2> QED
    BY <1>11, <2>1
<1>15. STRING \subseteq Glyphs
  BY DEF Glyphs
<1>16. u \in Seq(Glyphs) /\ g \in Seq(Glyphs)
  BY <1>7, <1>8, <1>15, SeqMonotonic
<1> DEFINE a == SubSeq(u, 1, j)
           b == SubSeq(g, 1, j - 1)
           first == <<u[1]>>
<1>17. a \in Seq(Glyphs) /\ Len(a) = j /\ \A i \in 1 .. j : a[i] = u[i]
  <2>1. \A i \in 1 .. j : u[i] \in Glyphs
    BY <1>7, <1>11, <1>16
  <2>2. /\ a \in Seq(Glyphs) /\ Len(a) = IF 1 <= j THEN j - 1 + 1 ELSE 0
        /\ \A i \in 1 .. j - 1 + 1 : a[i] = u[1 + i - 1]
    BY <1>11, <2>1, SubSeqProperties
  <2> HIDE DEF a
  <2> QED
    BY <1>11, <2>2
<1>18. b \in Seq(Glyphs) /\ Len(b) = j - 1 /\ \A i \in 1 .. j - 1 : b[i] = g[i]
  <2>1. \A i \in 1 .. j - 1 : g[i] \in Glyphs
    BY <1>8, <1>11, <1>16
  <2>2. /\ b \in Seq(Glyphs) /\ Len(b) = IF 1 <= j - 1 THEN (j - 1) - 1 + 1 ELSE 0
        /\ \A i \in 1 .. (j - 1) - 1 + 1 : b[i] = g[1 + i - 1]
    BY <1>11, <2>1, SubSeqProperties
  <2> HIDE DEF b
  <2> QED
    BY <1>11, <2>2
<1>19. first \in Seq(Glyphs) /\ Len(first) = 1 /\ first[1] = u[1]
  BY <1>6, <1>7, <1>16
<1>20. Run(u) = a /\ R[n][m] = first \o R[l - 1][m] /\ R[l - 1][m] = b \o R[l - j][m]
  BY <1>5a, <1>10, <1>14
<1> HIDE DEF a, b, first
<1>21. a = first \o b
  <2>1. /\ first \o b \in Seq(Glyphs) /\ Len(first \o b) = j
        /\ \A i \in 1 .. j : (first \o b)[i] = IF i <= 1 THEN first[i] ELSE b[i - 1]
    <3>1. Len(first) + Len(b) = j
      BY <1>11, <1>18, <1>19
    <3>2. /\ first \o b \in Seq(Glyphs) /\ Len(first \o b) = Len(first) + Len(b)
          /\ \A i \in 1 .. Len(first) + Len(b) :
               (first \o b)[i] = IF i <= Len(first) THEN first[i] ELSE b[i - Len(first)]
      BY <1>18, <1>19, ConcatProperties
    <3> DEFINE fb == first \o b
    <3> HIDE DEF fb
    <3>3. /\ fb \in Seq(Glyphs) /\ Len(fb) = j
          /\ \A i \in 1 .. j : fb[i] = IF i <= 1 THEN first[i] ELSE b[i - 1]
      BY <1>19, <3>1, <3>2 DEF fb
    <3> QED
      BY <3>3 DEF fb
  <2>2. ASSUME NEW i \in 1 .. j PROVE a[i] = (first \o b)[i]
    <3>1. CASE i = 1
      BY <1>17, <1>19, <2>1, <3>1
    <3>2. CASE i # 1
      <4>1. i - 1 \in 1 .. j - 1 /\ ~(i <= 1) /\ i - 1 \in 1 .. l - 1 /\ (i - 1) + 1 = i
        BY <1>6, <1>11, <3>2
      <4> QED
        BY <1>12, <1>17, <1>18, <2>1, <4>1
    <3> QED
      BY <3>1, <3>2
  <2> QED
    BY <1>17, <2>1, <2>2, SeqEqual
<1>22. R[l - j][m] \in Seq(Glyphs)
  BY <1>2, <1>11
<1>23. R[n][m] = a \o R[l - j][m]
  <2> DEFINE c == R[l - j][m]
  <2>1. c \in Seq(Glyphs) /\ R[n][m] = first \o (b \o c)
    BY <1>20, <1>22
  <2> HIDE DEF c
  <2>2. first \in Seq(Glyphs) /\ b \in Seq(Glyphs)
    BY <1>18, <1>19
  <2>3. R[n][m] = Cat(first, Cat(b, c)) /\ a = Cat(first, b)
    BY <1>21, <2>1, Zenon DEF Cat
  <2>4. Cat(Cat(first, b), c) = Cat(first, Cat(b, c))
    <3>1. c \in Seq(Glyphs) /\ first \in Seq(Glyphs) /\ b \in Seq(Glyphs)
      BY <2>1, <2>2
    <3> QED
      BY <3>1, Regroup
  <2>5. R[n][m] = Cat(a, c)
    BY <2>3, <2>4, Zenon
  <2> QED
    BY <2>5, Zenon DEF c, Cat
<1>24. SubSeq(u, Len(Run(u)) + 1, Len(u)) = End(F, l - j)
  BY <1>5a, <1>6, <1>7, <1>10, <1>11, EndOfEnd
<1>25. LiteralText(F, A, n, m, u)
  BY <1>11, <1>17, <1>20, <1>23, <1>24 DEF LiteralText, R
<1> QED
  BY <1>25 DEF u, e

(* A conversion, the argument it takes, and what it leaves.                *)
LEMMA ConversionPieceText ==
  ASSUME NEW F \in Seq(STRING), NEW A \in Seq(Argument),
         NEW n \in 1 .. Len(F), NEW m \in 0 .. Len(A), n <= 2 * m + 1,
         ~Literal(End(F, n)), Converts(End(F, n))
  PROVE  LET e    == End(F, n)
             text == Converted(e[2], Head(End(A, m)))
         IN  /\ n - 2 \in 0 .. Len(F) /\ m - 1 \in 0 .. Len(A) /\ n - 2 <= 2 * (m - 1) + 1
             /\ SubSeq(e, 3, Len(e)) = End(F, n - 2) /\ Tail(End(A, m)) = End(A, m - 1)
             /\ Renders(F, A)[n][m] = text \o Renders(F, A)[n - 2][m - 1]
             /\ text \in Seq(Glyphs)
             /\ Spills(e[2], text) => \E i \in DOMAIN F : F[i] = "b"
<1> DEFINE R == Renders(F, A)
           e == End(F, n)
           arg == Head(End(A, m))
           text == Converted(e[2], arg)
<1>0. /\ Len(F) \in Nat /\ n \in Nat /\ n >= 1 /\ n <= Len(F) /\ n \in 0 .. Len(F)
      /\ Len(A) \in Nat /\ m \in Nat /\ m <= Len(A)
  OBVIOUS
<1>1. e \in Seq(STRING) /\ Len(e) = n /\ \A i \in 1 .. n : e[i] = F[Len(F) - n + i]
  BY <1>0, EndFacts
<1>2. R[n][m] = RenderStep(F, A, R, n, m)
  BY <1>0, RendersFacts
<1>3. ~Literal(e) /\ Converts(e)
  OBVIOUS
<1> HIDE DEF e, R
<1>4. n > 1 /\ e[1] = "%" /\ e[2] # "%" /\ e[2] \in Conversions
  BY <1>1, <1>3 DEF Literal, Converts
<1>5. /\ n >= 2 /\ m >= 1 /\ n - 2 \in 0 .. Len(F) /\ m - 1 \in 0 .. Len(A) /\ n - 2 <= 2 * (m - 1) + 1
      /\ m \in 1 .. Len(A) /\ Len(A) - m + 1 \in 1 .. Len(A) /\ 2 \in 0 .. n /\ 2 \in 1 .. n
      /\ Len(F) - n + 2 \in 1 .. Len(F) /\ 2 + 1 = 3 /\ m \in 0 .. Len(A) /\ 1 \in 1 .. m
  BY <1>0, <1>4
<1>6. SubSeq(e, 3, Len(e)) = End(F, n - 2)
  <2>1. SubSeq(End(F, n), 2 + 1, n) = End(F, n - 2)
    BY <1>0, <1>5, EndOfEnd
  <2> QED
    BY <1>1, <1>5, <2>1 DEF e
<1>7. Tail(End(A, m)) = End(A, m - 1) /\ arg = End(A, m)[1]
  BY <1>5, EndTail
<1>8. End(A, m)[1] = A[Len(A) - m + 1]
  BY <1>5, EndFacts
<1>9. A[Len(A) - m + 1] \in Argument
  BY <1>5, ElementOfSeq
<1> HIDE DEF arg
<1>10. arg = A[Len(A) - m + 1] /\ arg \in Argument
  BY <1>7, <1>8, <1>9
<1>11. /\ text = Shown(e[2], arg) /\ text \in Seq(Glyphs)
       /\ Spills(e[2], text) => e[2] = "b"
  BY <1>4, <1>10, ConvertedIsShown
<1> HIDE DEF text
<1>12. R[n][m] = text \o R[n - 2][m - 1]
  <2>1. R[n][m] = Shown(e[2], A[Len(A) - m + 1]) \o R[n - 2][m - 1]
    <3>1. n # 0 /\ n # 1 /\ m > 0
      BY <1>5
    <3> QED
      BY <1>2, <1>4, <3>1, Zenon DEF RenderStep, e
  <2> QED
    BY <1>10, <1>11, <2>1
<1>13. Spills(e[2], text) => \E i \in DOMAIN F : F[i] = "b"
  <2>1. e[2] = F[Len(F) - n + 2]
    BY <1>1, <1>5
  <2>2. Len(F) - n + 2 \in DOMAIN F
    BY <1>5
  <2> QED
    BY <1>11, <2>1, <2>2
<1> QED
  BY <1>5, <1>6, <1>7, <1>11, <1>12, <1>13 DEF R, e, text, arg

(* Anything else is the rest of the text.                                  *)
LEMMA VerbatimText ==
  ASSUME NEW F \in Seq(STRING), NEW A \in Seq(Argument),
         NEW n \in 1 .. Len(F), NEW m \in 0 .. Len(A),
         ~Literal(End(F, n)), ~Converts(End(F, n))
  PROVE  Renders(F, A)[n][m] = End(F, n) /\ End(F, n) \in Seq(Glyphs)
<1> DEFINE R == Renders(F, A)
           e == End(F, n)
<1>0. n \in Nat /\ n >= 1 /\ n \in 0 .. Len(F)
  OBVIOUS
<1>1. e \in Seq(STRING) /\ Len(e) = n
  BY <1>0, EndFacts
<1>2. R[n][m] = RenderStep(F, A, R, n, m) /\ R[n][m] \in Seq(Glyphs)
  BY <1>0, RendersFacts
<1>3. ~Literal(e) /\ ~Converts(e)
  OBVIOUS
<1> HIDE DEF e, R
<1>4. e[1] = "%" /\ (n # 1 => e[2] # "%" /\ e[2] \notin Conversions)
  BY <1>0, <1>1, <1>3 DEF Literal, Converts
<1>5. R[n][m] = e
  <2>1. n # 0
    BY <1>0
  <2> QED
    BY <1>2, <1>4, <2>1, Zenon DEF RenderStep, e
<1> QED
  BY <1>2, <1>5 DEF R, e

---------------------------------------------------------------------------
(* All fields of a call, and of the ones that the steps of printf make.    *)
LEMMA CallFields ==
  ASSUME NEW f, NEW a, NEW p, NEW w, NEW r, NEW s, NEW o, NEW h,
         NEW c, c = Call(f, a, p, w, r, s, o, h)
  PROVE  /\ c.format = f /\ c.args = a /\ c.pending = p /\ c.written = w
         /\ c.printed = r /\ c.spilt = s /\ c.of = o /\ c.halts = h
BY DEF Call

(* Two states of one call that has printed nothing in between.             *)
SameText(d, c) == d.of = c.of /\ d.printed = c.printed

(* What Piece leaves of a call that it stops.                              *)
LEMMA StoppedText ==
  ASSUME NEW c, c = Fields(c), NEW w
  PROVE  LET d == StoppedAt(c, w)
         IN  /\ SameText(d, c) /\ d.pending = c.pending /\ d.spilt = c.spilt
             /\ d.written = w
<1> DEFINE d == StoppedAt(c, w)
<1>1. PICK f0, a0, p0, w0, r0, s0, o0, h0 : c = Call(f0, a0, p0, w0, r0, s0, o0, h0)
  BY DEF Fields, Call
<1>2. d = Call(f0, a0, p0, w, r0, s0, o0, h0)
  BY <1>1 DEF StoppedAt, Call
<1> HIDE DEF d
<1>3. /\ c.pending = p0 /\ c.printed = r0 /\ c.spilt = s0 /\ c.of = o0
      /\ d.pending = p0 /\ d.printed = r0 /\ d.spilt = s0 /\ d.of = o0 /\ d.written = w
  BY <1>1, <1>2, CallFields
<1> QED
  BY <1>3 DEF SameText, d

(* What Piece makes of a call whose next piece it cuts off.                *)
LEMMA CutText ==
  ASSUME NEW c, c = Fields(c), NEW f, NEW a, NEW p, NEW w, NEW s
  PROVE  LET d == Cut(c, f, a, p, w, s)
         IN  /\ SameText(d, c) /\ d.pending = p /\ d.spilt = s
             /\ d.written = w /\ d.format = f /\ d.args = a
<1> DEFINE d == Cut(c, f, a, p, w, s)
<1>1. PICK f0, a0, p0, w0, r0, s0, o0, h0 : c = Call(f0, a0, p0, w0, r0, s0, o0, h0)
  BY DEF Fields, Call
<1>2. d = Call(f, a, p, w, r0, s, o0, h0)
  BY <1>1, CutFields
<1> HIDE DEF d
<1>3. /\ c.printed = r0 /\ c.of = o0
      /\ d.pending = p /\ d.printed = r0 /\ d.spilt = s /\ d.of = o0 /\ d.written = w
      /\ d.format = f /\ d.args = a
  BY <1>1, <1>2, CallFields
<1> QED
  BY <1>3 DEF SameText, d

(* What Send makes of a call.                                              *)
LEMMA SentText ==
  ASSUME NEW c, c = Fields(c), NEW p, NEW r
  PROVE  LET d == Sent(c, p, r)
         IN  /\ d.of = c.of /\ d.printed = r /\ d.pending = p /\ d.spilt = c.spilt
             /\ d.written = c.written /\ d.format = c.format /\ d.args = c.args
<1> DEFINE d == Sent(c, p, r)
<1>1. PICK f0, a0, p0, w0, r0, s0, o0, h0 : c = Call(f0, a0, p0, w0, r0, s0, o0, h0)
  BY DEF Fields, Call
<1>2. d = Call(f0, a0, p, w0, r, s0, o0, h0)
  BY <1>1, SentFields
<1> HIDE DEF d
<1>3. /\ c.spilt = s0 /\ c.of = o0 /\ c.written = w0 /\ c.format = f0 /\ c.args = a0
      /\ d.pending = p /\ d.printed = r /\ d.spilt = s0 /\ d.of = o0 /\ d.written = w0
      /\ d.format = f0 /\ d.args = a0
  BY <1>1, <1>2, CallFields
<1> QED
  BY <1>3 DEF d

(* The call that printf starts with.                                       *)
IsFresh(d, c) ==
  /\ d.of = <<c>> /\ d.format = c.format /\ d.args = c.args
  /\ d.printed = <<>> /\ d.pending = <<>> /\ d.written = 0 /\ ~d.spilt

(* What Printf makes of an idle level.                                     *)
LEMMA StartedText ==
  ASSUME NEW c, NEW halts
  PROVE  IsFresh(Started(Idle, c.format, c.args, <<c>>, halts), c)
<1>1. PICK w0, s0, h0 : /\ Idle = Call(<<>>, <<>>, <<>>, w0, <<>>, s0, <<>>, h0)
                        /\ w0 = 0 /\ ~s0
  <2>1. Idle = Call(<<>>, <<>>, <<>>, 0, <<>>, FALSE, <<>>, FALSE)
    BY DEF Idle, Call
  <2> QED
    BY <2>1
<1>2. PICK f, a, o : f = c.format /\ a = c.args /\ o = <<c>>
  OBVIOUS
<1> DEFINE d == Started(Idle, f, a, o, halts)
<1>3. d = Call(f, a, <<>>, w0, <<>>, s0, o, halts)
  BY <1>1, StartedFields
<1> HIDE DEF d
<1>4. /\ d.format = f /\ d.args = a /\ d.pending = <<>> /\ d.written = w0
      /\ d.printed = <<>> /\ d.spilt = s0 /\ d.of = o
  BY <1>3, CallFields
<1>5. IsFresh(d, c)
  BY <1>1, <1>2, <1>4 DEF IsFresh
<1> QED
  BY <1>2, <1>5 DEF d

---------------------------------------------------------------------------
(* What a level still has to print of its call c: the last n characters of *)
(* the format, with the last m arguments.  Printed, pending and that are   *)
(* the text; a level that has stopped early would have passed INT_MAX.     *)
Tracks(c, n, m, d, at) ==
  /\ n \in 0 .. Len(c.format) /\ m \in 0 .. Len(c.args)
  /\ d.of = <<c>> /\ d.printed \in Seq(Glyphs) /\ d.pending \in Seq(Glyphs)
  /\ Texts[c] = Cat(d.printed, Cat(d.pending, Renders(c.format, c.args)[n][m]))
  /\ d.spilt => \E i \in DOMAIN c.format : c.format[i] = "b"
  /\ \/ /\ d.written = -1 /\ at \in {"return", "idle"}
        /\ Len(Texts[c]) > IntMax /\ Len(d.printed) < Len(Texts[c])
     \/ /\ d.written = Len(d.printed) + Len(d.pending)
        /\ d.format = End(c.format, n) /\ d.args = End(c.args, m) /\ n <= 2 * m + 1
        /\ at \in {"return", "idle"} => n = 0 /\ d.pending = <<>>

(* The line that send_to_serial prints, before any call of printf.         *)
Startup(d) == d.of = <<>> /\ d.format = <<>> /\ ~d.spilt

(* A call with a %b that has written behind buf, of whose text nothing is  *)
(* known.                                                                  *)
Overwritten(k, d) ==
  d.spilt /\ \E c \in Calls[k] : d.of = <<c>> /\ \E l \in DOMAIN c.format : c.format[l] = "b"

(* A level in its startup line, or somewhere in one of its calls.          *)
Follows(k, d, at) == \/ Startup(d) \/ Overwritten(k, d)
                     \/ \E c \in Calls[k] : \E n, m : Tracks(c, n, m, d, at)

(* The invariant behind PrintsFormat: what every level has yet to print.   *)
TextOK == \A k \in Levels : Follows(k, call[k], pc[k])

(* The arguments of a call, and its text.                                  *)
LEMMA CallText ==
  ASSUME NEW k \in Levels, NEW c \in Calls[k]
  PROVE  /\ c.format \in Seq(STRING) /\ c.args \in Seq(Argument)
         /\ Len(c.format) <= 2 * Len(c.args) + 1
         /\ Len(c.format) \in Nat /\ Len(c.args) \in Nat
         /\ Texts[c] = Renders(c.format, c.args)[Len(c.format)][Len(c.args)]
         /\ \A n \in 0 .. Len(c.format), m \in 0 .. Len(c.args) :
              Renders(c.format, c.args)[n][m] \in Seq(Glyphs)
         /\ \A m \in 0 .. Len(c.args) : Renders(c.format, c.args)[0][m] = <<>>
<1>1. /\ c.format \in Seq(STRING) /\ c.args \in Seq(Argument)
      /\ Len(c.format) <= 2 * Len(c.args) + 1
  BY CallsAssumption
<1>2. Len(c.format) \in Nat /\ Len(c.args) \in Nat
  BY <1>1
<1>3. c \in UNION {Calls[j] : j \in Levels}
  OBVIOUS
<1>4. Texts[c] = Renders(c.format, c.args)[Len(c.format)][Len(c.args)]
  BY <1>3 DEF Texts
<1>5. ASSUME NEW n \in 0 .. Len(c.format), NEW m \in 0 .. Len(c.args)
      PROVE  /\ Renders(c.format, c.args)[n][m] \in Seq(Glyphs)
             /\ n = 0 => Renders(c.format, c.args)[n][m] = <<>>
  <2>1. /\ Renders(c.format, c.args)[n][m] \in Seq(Glyphs)
        /\ Renders(c.format, c.args)[n][m]
             = RenderStep(c.format, c.args, Renders(c.format, c.args), n, m)
    BY <1>1, RendersFacts
  <2>2. n = 0 => RenderStep(c.format, c.args, Renders(c.format, c.args), n, m) = <<>>
    BY Zenon DEF RenderStep
  <2> QED
    BY <2>1, <2>2
<1>6. 0 \in 0 .. Len(c.format)
  BY <1>2
<1> QED
  BY <1>1, <1>2, <1>4, <1>5, <1>6

(* How long a concatenation is, and that the empty sequence adds nothing.  *)
LEMMA CatFacts ==
  ASSUME NEW S, NEW s \in Seq(S), NEW t \in Seq(S)
  PROVE  /\ Cat(s, t) \in Seq(S) /\ Len(Cat(s, t)) = Len(s) + Len(t)
         /\ Cat(s, <<>>) = s /\ Cat(<<>>, s) = s
         /\ Len(s) \in Nat /\ Len(t) \in Nat /\ <<>> \in Seq(S)
         /\ SubSeq(Cat(s, t), 1, Len(s)) = s
<1>1. Cat(s, t) \in Seq(S) /\ Len(Cat(s, t)) = Len(s) + Len(t)
  BY ConcatProperties DEF Cat
<1>2. Cat(s, <<>>) = s /\ Cat(<<>>, s) = s
  BY ConcatEmptySeq DEF Cat
<1>3. Len(s) \in Nat /\ Len(t) \in Nat /\ <<>> \in Seq(S)
  BY EmptySeq
<1>4. SubSeq(Cat(s, t), 1, Len(s)) = s
  <2>1. \A i \in 1 .. Len(s) + Len(t) : Cat(s, t)[i] = IF i <= Len(s) THEN s[i] ELSE t[i - Len(s)]
    BY ConcatProperties DEF Cat
  <2> DEFINE u == Cat(s, t)
             v == SubSeq(u, 1, Len(s))
  <2>2. \A i \in 1 .. Len(s) : u[i] = s[i] /\ s[i] \in S
    BY <1>3, <2>1
  <2> HIDE DEF u
  <2>3. \A i \in 1 .. Len(s) : u[i] \in S
    BY <2>2
  <2>4. Len(s) \in Int /\ 1 \in Int
    BY <1>3
  <2>5. /\ v \in Seq(S) /\ Len(v) = IF 1 <= Len(s) THEN Len(s) - 1 + 1 ELSE 0
        /\ \A i \in 1 .. Len(s) - 1 + 1 : v[i] = u[1 + i - 1]
    BY <2>3, <2>4, SubSeqProperties
  <2> HIDE DEF v
  <2>6. Len(v) = Len(s)
    BY <1>3, <2>5
  <2>7. ASSUME NEW i \in 1 .. Len(s) PROVE v[i] = s[i]
    <3>1. i \in 1 .. Len(s) - 1 + 1 /\ 1 + i - 1 = i
      BY <1>3
    <3> QED
      BY <2>2, <2>5, <3>1
  <2>8. v = s
    BY <2>5, <2>6, <2>7, SeqEqual
  <2> QED
    BY <2>8 DEF u, v
<1> QED
  BY <1>1, <1>2, <1>3, <1>4

(* What a level that prints has left.                                      *)
LEMMA Printing ==
  ASSUME NEW k \in Levels, NEW c \in Calls[k], NEW n, NEW m, NEW d, NEW at \in {"print", "send"},
         Tracks(c, n, m, d, at)
  PROVE  /\ d.written = Len(d.printed) + Len(d.pending)
         /\ d.format = End(c.format, n) /\ d.args = End(c.args, m) /\ n <= 2 * m + 1
BY DEF Tracks

(* At first it is everything.                                              *)
LEMMA TracksStart ==
  ASSUME NEW k \in Levels, NEW c \in Calls[k], NEW d, IsFresh(d, c), NEW at \in {"print", "send"}
  PROVE  Tracks(c, Len(c.format), Len(c.args), d, at)
<1> DEFINE n == Len(c.format)
           m == Len(c.args)
           rest == Renders(c.format, c.args)[n][m]
<1>1. /\ c.format \in Seq(STRING) /\ c.args \in Seq(Argument) /\ n <= 2 * m + 1
      /\ n \in Nat /\ m \in Nat /\ Texts[c] = rest
      /\ \A i \in 0 .. n, j \in 0 .. m : Renders(c.format, c.args)[i][j] \in Seq(Glyphs)
  BY CallText
<1>2. n \in 0 .. n /\ m \in 0 .. m
  BY <1>1
<1>3. rest \in Seq(Glyphs)
  BY <1>1, <1>2
<1>4. /\ d.of = <<c>> /\ d.format = c.format /\ d.args = c.args
      /\ d.printed = <<>> /\ d.pending = <<>> /\ d.written = 0 /\ ~d.spilt
  BY DEF IsFresh
<1>5. End(c.format, n) = c.format /\ End(c.args, m) = c.args
  BY <1>1, <1>2, EndFacts
<1> HIDE DEF rest
<1>6. Cat(d.printed, Cat(d.pending, rest)) = rest /\ <<>> \in Seq(Glyphs)
  BY <1>3, <1>4, CatFacts
<1>7. d.written = Len(d.printed) + Len(d.pending)
  <2>1. Len(d.printed) = 0 /\ Len(d.pending) = 0
    BY <1>4, EmptySeq
  <2> QED
    BY <1>4, <2>1
<1>8. /\ d.printed \in Seq(Glyphs) /\ d.pending \in Seq(Glyphs)
      /\ d.format = End(c.format, n) /\ d.args = End(c.args, m)
  BY <1>4, <1>5, <1>6
<1>9. Texts[c] = Cat(d.printed, Cat(d.pending, Renders(c.format, c.args)[n][m]))
  BY <1>1, <1>6 DEF rest
<1> HIDE DEF n, m
<1>10. Tracks(c, n, m, d, at)
  BY <1>1, <1>2, <1>4, <1>7, <1>8, <1>9 DEF Tracks, n, m
<1> QED
  BY <1>10 DEF n, m

(* A level that cuts off a piece that fits.                                *)
LEMMA TracksCut ==
  ASSUME NEW k \in Levels, NEW c \in Calls[k], NEW n, NEW m, NEW d,
         Tracks(c, n, m, d, "print"), d = Fields(d), d.pending = <<>>,
         NEW i \in 0 .. Len(c.format), NEW j \in 0 .. Len(c.args), i <= 2 * j + 1,
         NEW text \in Seq(Glyphs),
         Renders(c.format, c.args)[n][m] = Cat(text, Renders(c.format, c.args)[i][j]),
         NEW format, format = End(c.format, i), NEW args, args = End(c.args, j),
         NEW w, w = d.written + Len(text), NEW s,
         s => d.spilt \/ \E l \in DOMAIN c.format : c.format[l] = "b",
         NEW at \in {"print", "lost"}
  PROVE  Tracks(c, i, j, Cut(d, format, args, text, w, s), at)
<1> DEFINE e == Cut(d, format, args, text, w, s)
           R == Renders(c.format, c.args)
<1>1. /\ SameText(e, d) /\ e.pending = text /\ e.spilt = s
      /\ e.written = w /\ e.format = format /\ e.args = args
  BY CutText
<1>2. /\ e.of = <<c>> /\ e.printed = d.printed /\ d.printed \in Seq(Glyphs)
      /\ Texts[c] = Cat(d.printed, Cat(d.pending, R[n][m]))
      /\ d.spilt => \E l \in DOMAIN c.format : c.format[l] = "b"
  BY <1>1 DEF Tracks, SameText
<1>3. d.written = Len(d.printed) + Len(d.pending)
  BY DEF Tracks
<1> HIDE DEF e
<1>4. R[i][j] \in Seq(Glyphs)
  BY CallText
<1>5. R[n][m] = Cat(text, R[i][j])
  OBVIOUS
<1> DEFINE rest == R[i][j]
           now == R[n][m]
<1>6. rest \in Seq(Glyphs) /\ now = Cat(text, rest) /\ Texts[c] = Cat(d.printed, Cat(d.pending, now))
  BY <1>2, <1>4, <1>5
<1> HIDE DEF rest, now
<1>7. now \in Seq(Glyphs)
  BY <1>6, CatFacts
<1>8. Cat(d.pending, now) = now
  BY <1>7, CatFacts
<1>9. Texts[c] = Cat(e.printed, Cat(e.pending, rest))
  BY <1>1, <1>2, <1>6, <1>8
<1>10. e.written = Len(e.printed) + Len(e.pending)
  <2>1. Len(d.pending) = 0 /\ Len(d.printed) \in Nat
    BY <1>2, CatFacts, EmptySeq
  <2> QED
    BY <1>1, <1>2, <1>3, <2>1
<1>11. e.spilt => \E l \in DOMAIN c.format : c.format[l] = "b"
  BY <1>1, <1>2
<1>12. Tracks(c, i, j, e, at)
  <2>1. Texts[c] = Cat(e.printed, Cat(e.pending, Renders(c.format, c.args)[i][j]))
    BY <1>9 DEF rest
  <2>2. /\ e.printed \in Seq(Glyphs) /\ e.pending \in Seq(Glyphs)
        /\ e.format = End(c.format, i) /\ e.args = End(c.args, j)
    BY <1>1, <1>2
  <2>3. at \notin {"return", "idle"}
    OBVIOUS
  <2> QED
    BY <1>2, <1>10, <1>11, <2>1, <2>2, <2>3 DEF Tracks
<1> QED
  BY <1>12 DEF e

(* A level that stops in front of a piece that would pass INT_MAX.         *)
LEMMA TracksStop ==
  ASSUME NEW k \in Levels, NEW c \in Calls[k], NEW n, NEW m, NEW d,
         Tracks(c, n, m, d, "print"), d = Fields(d), d.pending = <<>>,
         NEW text \in Seq(Glyphs), NEW rest \in Seq(Glyphs),
         Renders(c.format, c.args)[n][m] = Cat(text, rest),
         TooLong(d.written, Len(text))
  PROVE  Tracks(c, n, m, StoppedAt(d, -1), "return")
<1> DEFINE e == StoppedAt(d, -1)
           now == Renders(c.format, c.args)[n][m]
<1>1. SameText(e, d) /\ e.pending = d.pending /\ e.spilt = d.spilt /\ e.written = -1
  BY StoppedText
<1>2. /\ e.of = <<c>> /\ e.printed = d.printed /\ d.printed \in Seq(Glyphs)
      /\ Texts[c] = Cat(d.printed, Cat(d.pending, now))
      /\ d.spilt => \E l \in DOMAIN c.format : c.format[l] = "b"
      /\ n \in 0 .. Len(c.format) /\ m \in 0 .. Len(c.args)
  BY <1>1 DEF Tracks, SameText
<1>3. d.written = Len(d.printed) + Len(d.pending)
  BY DEF Tracks
<1> HIDE DEF e
<1>4. now = Cat(text, rest)
  OBVIOUS
<1> HIDE DEF now
<1>5. now \in Seq(Glyphs) /\ Len(now) = Len(text) + Len(rest) /\ Len(text) \in Nat /\ Len(rest) \in Nat
  BY <1>4, CatFacts
<1>6. Cat(d.pending, now) = now
  BY <1>5, CatFacts
<1>7. Len(Texts[c]) = Len(d.printed) + Len(now) /\ Len(d.printed) \in Nat
  <2>1. Texts[c] = Cat(d.printed, now) /\ d.printed \in Seq(Glyphs)
    BY <1>2, <1>6
  <2>2. Len(Cat(d.printed, now)) = Len(d.printed) + Len(now) /\ Len(d.printed) \in Nat
    BY <1>5, <2>1, CatFacts
  <2> QED
    BY <2>1, <2>2
<1>8. Len(d.pending) = 0
  BY EmptySeq
<1>9. IntMax \in Nat
  BY ConsoleAssumption
<1>10. Len(Texts[c]) > IntMax /\ Len(e.printed) < Len(Texts[c])
  <2>1. d.written <= IntMax /\ IntMax - d.written < Len(text)
    BY DEF TooLong
  <2> QED
    <3>1. d.written = Len(d.printed)
      BY <1>3, <1>7, <1>8
    <3>2. Len(Texts[c]) = Len(d.printed) + (Len(text) + Len(rest))
      BY <1>5, <1>7
    <3>3. Len(text) \in Nat /\ Len(rest) \in Nat /\ Len(d.printed) \in Nat
      BY <1>5, <1>7
    <3>4. e.printed = d.printed
      BY <1>2
    <3> DEFINE x == Len(text)
               y == Len(rest)
               z == Len(d.printed)
    <3> HIDE DEF x, y, z
    <3>5. Len(Texts[c]) = z + (x + y) /\ x \in Nat /\ y \in Nat /\ z \in Nat
      BY <3>2, <3>3 DEF x, y, z
    <3>6. z <= IntMax /\ IntMax - z < x
      BY <2>1, <3>1 DEF x, z
    <3>7. Len(Texts[c]) > IntMax /\ z < Len(Texts[c])
      BY <1>9, <3>5, <3>6
    <3> QED
      BY <3>4, <3>7 DEF z
<1>11. e.printed \in Seq(Glyphs) /\ e.pending \in Seq(Glyphs)
  BY <1>1, <1>2, EmptySeq
<1>12. Texts[c] = Cat(e.printed, Cat(e.pending, Renders(c.format, c.args)[n][m]))
  BY <1>1, <1>2 DEF now
<1>13. e.spilt => \E l \in DOMAIN c.format : c.format[l] = "b"
  BY <1>1, <1>2
<1>14. Tracks(c, n, m, e, "return")
  BY <1>1, <1>2, <1>10, <1>11, <1>12, <1>13 DEF Tracks
<1> QED
  BY <1>14 DEF e

(* A level that reaches the end of its format.                             *)
LEMMA TracksEnd ==
  ASSUME NEW k \in Levels, NEW c \in Calls[k], NEW n, NEW m, NEW d,
         Tracks(c, n, m, d, "print"), d.pending = <<>>, d.format = <<>>
  PROVE  Tracks(c, n, m, d, "return")
<1>1. d.format = End(c.format, n) /\ n \in 0 .. Len(c.format) /\ c.format \in Seq(STRING)
  BY Printing, CallText DEF Tracks
<1>2. Len(d.format) = n
  BY <1>1, EndFacts
<1>3. n = 0
  BY <1>2, EmptySeq
<1>4. /\ d.written = Len(d.printed) + Len(d.pending)
      /\ d.format = End(c.format, n) /\ d.args = End(c.args, m) /\ n <= 2 * m + 1
  BY Printing
<1> QED
  BY <1>3, <1>4 DEF Tracks

(* A level that waits for the port, or whose call is over.                 *)
LEMMA TracksOn ==
  ASSUME NEW c, NEW n, NEW m, NEW d, NEW at \in {"print", "send"}, NEW next \in {"print", "send"},
         Tracks(c, n, m, d, at)
  PROVE  Tracks(c, n, m, d, next)
BY DEF Tracks

(* A level whose handler returns.                                          *)
LEMMA TracksIdle ==
  ASSUME NEW c, NEW n, NEW m, NEW d, Tracks(c, n, m, d, "return")
  PROVE  Tracks(c, n, m, d, "idle")
BY DEF Tracks

(* A level that writes the next character.                                 *)
LEMMA TracksSend ==
  ASSUME NEW k \in Levels, NEW c \in Calls[k], NEW n, NEW m, NEW d,
         Tracks(c, n, m, d, "send"), d = Fields(d), d.pending # <<>>
  PROVE  Tracks(c, n, m, Sent(d, Tail(d.pending), Append(d.printed, Head(d.pending))), "print")
<1> DEFINE p == d.pending
           rest == Tail(p)
           text == Append(d.printed, Head(p))
           e == Sent(d, rest, text)
           now == Renders(c.format, c.args)[n][m]
<1>1. /\ e.of = d.of /\ e.printed = text /\ e.pending = rest /\ e.spilt = d.spilt
      /\ e.written = d.written /\ e.format = d.format /\ e.args = d.args
  <2> HIDE DEF text, rest
  <2> QED
    BY SentText
<1>2. /\ d.of = <<c>> /\ d.printed \in Seq(Glyphs) /\ p \in Seq(Glyphs)
      /\ Texts[c] = Cat(d.printed, Cat(p, now))
      /\ d.spilt => \E l \in DOMAIN c.format : c.format[l] = "b"
      /\ n \in 0 .. Len(c.format) /\ m \in 0 .. Len(c.args)
  BY DEF Tracks
<1>3. /\ d.written = Len(d.printed) + Len(p)
      /\ d.format = End(c.format, n) /\ d.args = End(c.args, m) /\ n <= 2 * m + 1
  BY Printing
<1>4. now \in Seq(Glyphs)
  BY <1>2, CallText
<1>5. p # <<>>
  OBVIOUS
<1> HIDE DEF p, e, now
<1>6. /\ Head(p) \in Glyphs /\ rest \in Seq(Glyphs) /\ Len(rest) = Len(p) - 1 /\ Len(p) \in Nat
      /\ text \in Seq(Glyphs) /\ Len(text) = Len(d.printed) + 1 /\ Len(d.printed) \in Nat
  BY <1>2, <1>5
<1>7. Cat(text, rest) = Cat(d.printed, p)
  BY <1>2, <1>5, ByteMoves DEF Cat
<1> HIDE DEF rest, text
<1>8. Cat(d.printed, Cat(p, now)) = Cat(Cat(d.printed, p), now)
  BY <1>2, <1>4, Regroup
<1>9. Cat(text, Cat(rest, now)) = Cat(Cat(text, rest), now)
  BY <1>4, <1>6, Regroup
<1>10. Texts[c] = Cat(text, Cat(rest, now))
  BY <1>2, <1>7, <1>8, <1>9
<1>11. Texts[c] = Cat(e.printed, Cat(e.pending, Renders(c.format, c.args)[n][m]))
  BY <1>1, <1>10 DEF now
<1>12. e.written = Len(e.printed) + Len(e.pending)
  BY <1>1, <1>3, <1>6
<1>13. /\ e.of = <<c>> /\ e.printed \in Seq(Glyphs) /\ e.pending \in Seq(Glyphs)
       /\ e.format = End(c.format, n) /\ e.args = End(c.args, m) /\ n <= 2 * m + 1
       /\ e.spilt => \E l \in DOMAIN c.format : c.format[l] = "b"
  BY <1>1, <1>2, <1>3, <1>6
<1>14. Tracks(c, n, m, e, "print")
  BY <1>2, <1>11, <1>12, <1>13 DEF Tracks
<1> QED
  BY <1>14 DEF e, text, rest, p

---------------------------------------------------------------------------
(* A level without work to do for a call of printf.                        *)
LEMMA StartupText ==
  ASSUME NEW d, NEW at, Follows(0, d, at), d.of = <<>>
  PROVE  Startup(d)
<1>1. ~ (\E c \in Calls[0] : \E n, m : Tracks(c, n, m, d, at))
  <2> SUFFICES ASSUME NEW c \in Calls[0], NEW n, NEW m, Tracks(c, n, m, d, at) PROVE FALSE
    OBVIOUS
  <2>1. d.of = <<c>>
    BY DEF Tracks
  <2> QED
    BY <2>1
<1>2. ~Overwritten(0, d)
  BY DEF Overwritten
<1> QED
  BY <1>1, <1>2 DEF Follows

(* Only the step's own level has to be looked at.                          *)
LEMMA OneLevel ==
  ASSUME TextOK, NEW k \in Levels, \A j \in Levels \ {k} : call'[j] = call[j] /\ pc'[j] = pc[j],
         Follows(k, call'[k], pc'[k])
  PROVE  TextOK'
BY DEF TextOK, Follows

(* At first every level is idle.                                           *)
LEMMA InitText == Init => TextOK
<1> SUFFICES ASSUME Init, NEW k \in Levels PROVE Startup(call[k])
  BY DEF TextOK, Follows
<1>1. call[k] = Idle
  BY DEF Init
<1> QED
  BY <1>1 DEF Startup, Idle

(* What becomes of a piece: the level stops, or cuts it off.               *)
Outcome(k, text, format, args, spills) ==
  \/ /\ TooLong(call[k].written, Len(text))
     /\ call' = [call EXCEPT ![k] = StoppedAt(call[k], -1)]
     /\ pc' = [pc EXCEPT ![k] = "return"]
  \/ \E s : \E at \in {"print", "lost"} :
       /\ s => call[k].spilt \/ spills
       /\ call' = [call EXCEPT ![k] = Cut(call[k], format, args, text,
                                          call[k].written + Len(text), s)]
       /\ pc' = [pc EXCEPT ![k] = at]

(* Piece has no other outcome.                                             *)
LEMMA PieceOutcome ==
  ASSUME CallOK, NEW k \in Levels, NEW text, NEW format, NEW args, NEW tested, NEW spilt,
         Piece(k, text, format, args, tested, spilt)
  PROVE  Outcome(k, text, format, args, spilt)
<1>1. k \in DOMAIN call
  BY DEF CallOK
<1>2. CASE tested /\ TooLong(call[k].written, Len(text))
  <2>1. call' = [call EXCEPT ![k].written = -1] /\ pc' = [pc EXCEPT ![k] = "return"]
    BY <1>2 DEF Piece
  <2>2. call' = [call EXCEPT ![k] = StoppedAt(call[k], -1)]
    BY <2>1 DEF StoppedAt
  <2> QED
    BY <1>2, <2>1, <2>2 DEF Outcome
<1>3. CASE ~(tested /\ TooLong(call[k].written, Len(text)))
  <2> DEFINE s == call[k].spilt \/ spilt
  <2>1. /\ call' = [call EXCEPT ![k].format = format, ![k].args = args,
                           ![k].pending = text, ![k].written = call[k].written + Len(text),
                           ![k].spilt = s]
        /\ \E next \in IF spilt THEN {"print", "lost"} ELSE {"print"} :
             pc' = [pc EXCEPT ![k] = next]
    BY <1>3 DEF Piece
  <2>2. PICK at \in {"print", "lost"} : pc' = [pc EXCEPT ![k] = at]
    BY <2>1
  <2>3. s => call[k].spilt \/ spilt
    OBVIOUS
  <2> HIDE DEF s
  <2>4. call' = [call EXCEPT ![k] = Cut(call[k], format, args, text,
                                       call[k].written + Len(text), s)]
    BY <1>1, <2>1 DEF Cut
  <2> HIDE DEF Cut
  <2> QED
    BY <2>2, <2>3, <2>4 DEF Outcome
<1> QED
  BY <1>2, <1>3

(* A number that writes behind buf leaves its mark.                        *)
Marks(k, tested, spilt) == tested \/ (spilt => call'[k].spilt)

(* Piece sets the mark, unless it stops before it prints.                  *)
LEMMA PieceSpills ==
  ASSUME CallOK, NEW k \in Levels, NEW text, NEW format, NEW args, NEW tested, NEW spilt,
         Piece(k, text, format, args, tested, spilt)
  PROVE  Marks(k, tested, spilt)
<1> SUFFICES ASSUME ~tested, spilt PROVE call'[k].spilt
  BY DEF Marks
<1>1. k \in DOMAIN call /\ call[k] = Fields(call[k])
  BY DEF CallOK
<1> DEFINE w == call[k].written + Len(text)
           s == call[k].spilt \/ spilt
<1>2. call' = [call EXCEPT ![k].format = format, ![k].args = args,
                           ![k].pending = text, ![k].written = w, ![k].spilt = s]
  BY DEF Piece
<1>3. s
  OBVIOUS
<1> HIDE DEF w, s
<1>4. call'[k] = Cut(call[k], format, args, text, w, s)
  BY <1>1, <1>2 DEF Cut
<1>5. Cut(call[k], format, args, text, w, s).spilt = s
  BY <1>1, CutText
<1> QED
  BY <1>3, <1>4, <1>5

(* The pieces that NextPiece may cut off.                                  *)
LEMMA PieceOutcomes ==
  ASSUME CallOK, NEW k \in Levels, NextPiece(k)
  PROVE  LET format == call[k].format
             u      == Unescaped(format)
             text   == Converted(format[2], Head(call[k].args))
         IN  \/ /\ Literal(format)
                /\ Outcome(k, Run(u), SubSeq(u, Len(Run(u)) + 1, Len(u)), call[k].args, FALSE)
             \/ /\ ~Literal(format) /\ Converts(format)
                /\ \/ Outcome(k, text, SubSeq(format, 3, Len(format)), Tail(call[k].args),
                              Spills(format[2], text))
                   \/ Spills(format[2], text) /\ call'[k].spilt
             \/ /\ ~Literal(format) /\ ~Converts(format)
                /\ Outcome(k, format, <<>>, call[k].args, FALSE)
<1>1. CASE Literal(call[k].format)
  <2>1. LiteralPiece(k)
    BY <1>1, Zenon DEF NextPiece
  <2> QED
    BY <1>1, <2>1, PieceOutcome, Zenon DEF LiteralPiece
<1>2. CASE ~Literal(call[k].format) /\ Converts(call[k].format)
  <2>1. ConversionPiece(k)
    BY <1>2, Zenon DEF NextPiece
  <2> DEFINE format == call[k].format
             text   == Converted(format[2], Head(call[k].args))
             spills == Spills(format[2], text)
             left   == SubSeq(format, 3, Len(format))
             tested == format[2] \in {"c", "s"}
  <2>2. \E said \in Said(format[2], text) :
          Piece(k, said, left, Tail(call[k].args), tested, spills)
    BY <2>1, Zenon DEF ConversionPiece
  <2>3. spills => ~tested
    BY Zenon DEF Spills
  <2>4. ~spills => Said(format[2], text) = {text}
    BY Zenon DEF Said
  <2> HIDE DEF format, text, left, tested, spills
  <2>5. PICK said : /\ said \in Said(format[2], text)
                    /\ Piece(k, said, left, Tail(call[k].args), tested, spills)
    BY <2>2
  <2>6. CASE ~spills
    <3>1. said = text
      BY <2>4, <2>5, <2>6
    <3>2. Outcome(k, text, left, Tail(call[k].args), spills)
      BY <2>5, <3>1, PieceOutcome, Zenon
    <3> QED
      BY <1>2, <3>2, Zenon DEF format, text, left, spills
  <2>7. CASE spills
    <3>1. Marks(k, tested, spills)
      BY <2>5, PieceSpills, Zenon
    <3>2. call'[k].spilt
      BY <2>3, <2>7, <3>1, Zenon DEF Marks
    <3> QED
      BY <1>2, <2>7, <3>2, Zenon DEF format, text, left, spills
  <2> QED
    BY <2>6, <2>7, Zenon
<1>3. CASE ~Literal(call[k].format) /\ ~Converts(call[k].format)
  <2>1. Verbatim(k)
    BY <1>3, Zenon DEF NextPiece
  <2> QED
    BY <1>3, <2>1, PieceOutcome, Zenon DEF Verbatim
<1> QED
  BY <1>1, <1>2, <1>3, Zenon

(* Whatever becomes of it, printed, pending and the rest are the text.     *)
LEMMA OutcomeText ==
  ASSUME TextOK, CallOK, pc \in [Levels -> Stage], NEW k \in Levels, pc[k] = "print",
         call[k].pending = <<>>,
         NEW c \in Calls[k], NEW n, NEW m, Tracks(c, n, m, call[k], "print"),
         NEW i \in 0 .. Len(c.format), NEW j \in 0 .. Len(c.args), i <= 2 * j + 1,
         NEW text \in Seq(Glyphs),
         Renders(c.format, c.args)[n][m] = Cat(text, Renders(c.format, c.args)[i][j]),
         NEW format, format = End(c.format, i), NEW args, args = End(c.args, j),
         NEW spills, spills => \E l \in DOMAIN c.format : c.format[l] = "b",
         Outcome(k, text, format, args, spills)
  PROVE  TextOK'
<1>1. call[k] = Fields(call[k]) /\ call = [l \in Levels |-> call[l]]
  BY DEF CallOK
<1>2. CASE /\ TooLong(call[k].written, Len(text))
           /\ call' = [call EXCEPT ![k] = StoppedAt(call[k], -1)]
           /\ pc' = [pc EXCEPT ![k] = "return"]
  <2> DEFINE d == StoppedAt(call[k], -1)
             rest == Renders(c.format, c.args)[i][j]
  <2>1. rest \in Seq(Glyphs)
    BY CallText
  <2>2. Tracks(c, n, m, d, "return")
    <3> HIDE DEF d
    <3>1. Renders(c.format, c.args)[n][m] = Cat(text, rest)
      OBVIOUS
    <3> HIDE DEF rest
    <3> QED
      BY <1>1, <1>2, <2>1, <3>1, TracksStop DEF d
  <2> HIDE DEF d
  <2>3. call'[k] = d /\ pc'[k] = "return"
        /\ \A l \in Levels \ {k} : call'[l] = call[l] /\ pc'[l] = pc[l]
    BY <1>1, <1>2 DEF d
  <2>4. Follows(k, call'[k], pc'[k])
    BY <2>2, <2>3 DEF Follows
  <2> QED
    BY <2>3, <2>4, OneLevel
<1>3. CASE \E s : \E at \in {"print", "lost"} :
             /\ s => call[k].spilt \/ spills
             /\ call' = [call EXCEPT ![k] = Cut(call[k], format, args, text,
                                                call[k].written + Len(text), s)]
             /\ pc' = [pc EXCEPT ![k] = at]
  <2>1. PICK s : \E at \in {"print", "lost"} :
             /\ s => call[k].spilt \/ spills
             /\ call' = [call EXCEPT ![k] = Cut(call[k], format, args, text,
                                                call[k].written + Len(text), s)]
             /\ pc' = [pc EXCEPT ![k] = at]
    BY <1>3
  <2>2. PICK at \in {"print", "lost"} :
             /\ s => call[k].spilt \/ spills
             /\ call' = [call EXCEPT ![k] = Cut(call[k], format, args, text,
                                                call[k].written + Len(text), s)]
             /\ pc' = [pc EXCEPT ![k] = at]
    BY <2>1
  <2> DEFINE w == call[k].written + Len(text)
             d == Cut(call[k], format, args, text, w, s)
  <2>3. s => call[k].spilt \/ \E l \in DOMAIN c.format : c.format[l] = "b"
    BY <2>2
  <2>4. w = call[k].written + Len(text) /\ call' = [call EXCEPT ![k] = d]
    BY <2>2
  <2> HIDE DEF w
  <2>5. Tracks(c, i, j, d, at)
    <3>1. call[k] = Fields(call[k]) /\ w = call[k].written + Len(text)
      BY <1>1, <2>4
    <3> QED
      BY <2>3, <3>1, TracksCut, Zenon
  <2> HIDE DEF d
  <2>6. call'[k] = d /\ pc'[k] = at
        /\ \A l \in Levels \ {k} : call'[l] = call[l] /\ pc'[l] = pc[l]
    BY <1>1, <2>2, <2>4
  <2>7. Follows(k, call'[k], pc'[k])
    BY <2>5, <2>6 DEF Follows
  <2> QED
    BY <2>6, <2>7, OneLevel
<1> QED
  BY <1>2, <1>3 DEF Outcome

(* A piece of a call that has written behind buf.                          *)
LEMMA OverwrittenText ==
  ASSUME IInv, TextOK, NEW k \in Levels, NextPiece(k), call'[k].spilt,
         \E c \in Calls[k] : call[k].of = <<c>> /\ \E l \in DOMAIN c.format : c.format[l] = "b"
  PROVE  TextOK'
<1>1. call'[k].of = call[k].of /\ \A j \in Levels \ {k} : call'[j] = call[j]
  BY PieceCall DEF IInv
<1>2. \A j \in Levels \ {k} : pc'[j] = pc[j]
  <2>1. PICK stage \in {"print", "return", "lost"} : pc' = [pc EXCEPT ![k] = stage]
    BY PieceChanges DEF IInv
  <2> QED
    BY <2>1 DEF IInv, TypeOK
<1>3. Overwritten(k, call'[k])
  BY <1>1 DEF Overwritten
<1> QED
  BY <1>1, <1>2, <1>3, OneLevel DEF Follows

(* Each action in turn: a piece of the format.                             *)
LEMMA NextPieceText ==
  ASSUME IInv, TextOK, NEW k \in Levels, NextPiece(k) PROVE TextOK'
<1> SUFFICES ASSUME ~Overwritten(k, call[k]) PROVE TextOK'
  <2>1. ASSUME Overwritten(k, call[k]) PROVE TextOK'
    <3>1. call'[k].spilt
      BY <2>1, PieceCall DEF Overwritten, IInv
    <3>2. \E c \in Calls[k] : call[k].of = <<c>> /\ \E l \in DOMAIN c.format : c.format[l] = "b"
      BY <2>1 DEF Overwritten
    <3> QED
      BY <3>1, <3>2, OverwrittenText
  <2> QED
    BY <2>1
<1>1. pc[k] = "print" /\ call[k].pending = <<>> /\ call[k].format # <<>>
  BY DEF NextPiece, Runs
<1>2. CallOK /\ pc \in [Levels -> Stage]
  BY DEF IInv, TypeOK
<1>0. PICK c \in Calls[k] : \E n, m : Tracks(c, n, m, call[k], "print")
  <2>1. Follows(k, call[k], "print") /\ ~Startup(call[k])
    BY <1>1 DEF TextOK, Startup
  <2> QED
    BY <2>1 DEF Follows
<1>3. PICK n, m : Tracks(c, n, m, call[k], "print")
  BY <1>0
<1> DEFINE F == c.format
           A == c.args
           R == Renders(F, A)
           f == call[k].format
           a == call[k].args
<1>4. /\ F \in Seq(STRING) /\ A \in Seq(Argument)
      /\ Len(F) \in Nat /\ Len(A) \in Nat
      /\ \A i \in 0 .. Len(F), j \in 0 .. Len(A) : R[i][j] \in Seq(Glyphs)
      /\ \A j \in 0 .. Len(A) : R[0][j] = <<>>
  BY CallText
<1>5. n \in 0 .. Len(F) /\ m \in 0 .. Len(A)
  BY <1>3 DEF Tracks
<1>6. f = End(F, n) /\ a = End(A, m) /\ n <= 2 * m + 1
  BY <1>3 DEF Tracks
<1> HIDE DEF F, A, R, f, a
<1>7. n \in 1 .. Len(F) /\ 0 \in 0 .. Len(F) /\ 0 <= 2 * m + 1
  <2>1. n # 0
    <3>1. 0 \in 0 .. Len(F)
      BY <1>4
    <3>2. End(F, 0) = <<>>
      BY <1>4, <3>1, EndFacts
    <3> QED
      BY <1>1, <1>6, <3>2 DEF f
  <2> QED
    BY <1>4, <1>5, <2>1
<1> DEFINE HasB == \E i \in DOMAIN F : F[i] = "b"
<1>8. ASSUME NEW i \in 0 .. Len(F), NEW j \in 0 .. Len(A), i <= 2 * j + 1, NEW text \in Seq(Glyphs),
             R[n][m] = Cat(text, R[i][j]), NEW format, format = End(F, i), NEW args, args = End(A, j),
             NEW spills, spills => HasB, Outcome(k, text, format, args, spills)
      PROVE  TextOK'
  BY <1>1, <1>2, <1>3, <1>8, OutcomeText, Zenon DEF F, A, R
<1>9. \/ /\ Literal(f)
         /\ Outcome(k, Run(Unescaped(f)),
                    SubSeq(Unescaped(f), Len(Run(Unescaped(f))) + 1, Len(Unescaped(f))), a, FALSE)
      \/ /\ ~Literal(f) /\ Converts(f)
         /\ \/ Outcome(k, Converted(f[2], Head(a)), SubSeq(f, 3, Len(f)), Tail(a),
                       Spills(f[2], Converted(f[2], Head(a))))
            \/ Spills(f[2], Converted(f[2], Head(a))) /\ call'[k].spilt
      \/ /\ ~Literal(f) /\ ~Converts(f)
         /\ Outcome(k, f, <<>>, a, FALSE)
  BY <1>2, PieceOutcomes, Zenon DEF f, a
<1>10. CASE /\ Literal(f)
            /\ Outcome(k, Run(Unescaped(f)),
                    SubSeq(Unescaped(f), Len(Run(Unescaped(f))) + 1, Len(Unescaped(f))), a, FALSE)
  <2> DEFINE u == Unescaped(f)
             text == Run(u)
             left == SubSeq(u, Len(Run(u)) + 1, Len(u))
  <2>1. LiteralText(F, A, n, m, u)
    BY <1>4, <1>5, <1>6, <1>7, <1>10, LiteralPieceText
  <2>2. Outcome(k, text, left, a, FALSE)
    BY <1>10
  <2>3. \E i \in 0 .. Len(F) : left = End(F, i) /\ i < n /\ R[n][m] = text \o R[i][m] /\ text \in Seq(Glyphs)
    BY <2>1, Zenon DEF LiteralText, R
  <2> HIDE DEF u, text, left
  <2>4. PICK i \in 0 .. Len(F) : left = End(F, i) /\ i < n /\ R[n][m] = text \o R[i][m] /\ text \in Seq(Glyphs)
    BY <2>3
  <2>5. i <= 2 * m + 1
    BY <1>4, <1>5, <1>6, <2>4
  <2>6. R[n][m] = Cat(text, R[i][m])
    BY <2>4, Zenon DEF Cat
  <2>7. FALSE => HasB
    OBVIOUS
  <2> HIDE DEF HasB
  <2> QED
    BY <1>5, <1>6, <1>8, <2>2, <2>4, <2>5, <2>6, <2>7, Zenon
<1>11. CASE /\ ~Literal(f) /\ Converts(f)
            /\ \/ Outcome(k, Converted(f[2], Head(a)), SubSeq(f, 3, Len(f)), Tail(a),
                          Spills(f[2], Converted(f[2], Head(a))))
               \/ Spills(f[2], Converted(f[2], Head(a))) /\ call'[k].spilt
  <2> DEFINE text == Converted(f[2], Head(a))
             left == SubSeq(f, 3, Len(f))
             spills == Spills(f[2], text)
  <2>1. /\ n - 2 \in 0 .. Len(F) /\ m - 1 \in 0 .. Len(A) /\ n - 2 <= 2 * (m - 1) + 1
        /\ left = End(F, n - 2) /\ Tail(a) = End(A, m - 1)
        /\ R[n][m] = text \o R[n - 2][m - 1]
        /\ text \in Seq(Glyphs)
        /\ spills => HasB
    <3>1. ~Literal(End(F, n)) /\ Converts(End(F, n))
      BY <1>6, <1>11
    <3>2. LET e == End(F, n)
              t == Converted(e[2], Head(End(A, m)))
          IN  /\ n - 2 \in 0 .. Len(F) /\ m - 1 \in 0 .. Len(A) /\ n - 2 <= 2 * (m - 1) + 1
              /\ SubSeq(e, 3, Len(e)) = End(F, n - 2) /\ Tail(End(A, m)) = End(A, m - 1)
              /\ Renders(F, A)[n][m] = t \o Renders(F, A)[n - 2][m - 1]
              /\ t \in Seq(Glyphs)
              /\ Spills(e[2], t) => \E i \in DOMAIN F : F[i] = "b"
      BY <1>4, <1>5, <1>6, <1>7, <3>1, ConversionPieceText, Zenon
    <3> QED
      BY <1>6, <3>2, Zenon DEF R
  <2>2. Outcome(k, text, left, Tail(a), spills) \/ (spills /\ call'[k].spilt)
    BY <1>11
  <2>3. ASSUME spills, call'[k].spilt PROVE TextOK'
    <3>1. call[k].of = <<c>>
      BY <1>3 DEF Tracks
    <3>2. \E l \in DOMAIN c.format : c.format[l] = "b"
      BY <2>1, <2>3, Zenon DEF F
    <3> QED
      BY <2>3, <3>1, <3>2, OverwrittenText, Zenon
  <2> HIDE DEF text, left, spills, HasB
  <2>4. R[n][m] = Cat(text, R[n - 2][m - 1])
    BY <2>1, Zenon DEF Cat
  <2> QED
    BY <1>8, <2>1, <2>2, <2>3, <2>4, Zenon
<1>12. CASE ~Literal(f) /\ ~Converts(f) /\ Outcome(k, f, <<>>, a, FALSE)
  <2>1. R[n][m] = f /\ f \in Seq(Glyphs)
    BY <1>4, <1>5, <1>6, <1>7, <1>12, VerbatimText, Zenon DEF R
  <2>2. R[0][m] = <<>>
    BY <1>4, <1>5
  <2>3. R[n][m] = Cat(f, R[0][m])
    BY <2>1, <2>2, CatFacts, Zenon
  <2>4. <<>> = End(F, 0)
    BY <1>4, <1>7, EndFacts, Zenon
  <2>5. FALSE => HasB
    OBVIOUS
  <2> HIDE DEF HasB
  <2> QED
    BY <1>5, <1>6, <1>7, <1>8, <1>12, <2>1, <2>3, <2>4, <2>5, Zenon
<1> QED
  BY <1>9, <1>10, <1>11, <1>12, Zenon

(* The end of the format.                                                  *)
LEMMA EndOfFormatText ==
  ASSUME IInv, TextOK, NEW k \in Levels, EndOfFormat(k) PROVE TextOK'
<1>1. /\ pc[k] = "print" /\ call[k].pending = <<>> /\ call[k].format = <<>>
      /\ pc' = [pc EXCEPT ![k] = "return"] /\ call' = call /\ pc \in [Levels -> Stage]
  BY DEF EndOfFormat, Runs, IInv, TypeOK
<1>2. Follows(k, call[k], "return")
  <2>1. CASE Startup(call[k]) \/ Overwritten(k, call[k])
    BY <2>1 DEF Follows
  <2>2. CASE ~Startup(call[k]) /\ ~Overwritten(k, call[k])
    <3>0. PICK c \in Calls[k] : \E n, m : Tracks(c, n, m, call[k], "print")
      BY <1>1, <2>2 DEF TextOK, Follows
    <3>1. PICK n, m : Tracks(c, n, m, call[k], "print")
      BY <3>0
    <3>2. Tracks(c, n, m, call[k], "return")
      BY <1>1, <3>1, TracksEnd
    <3> QED
      BY <3>2 DEF Follows
  <2> QED
    BY <2>1, <2>2
<1> QED
  BY <1>1, <1>2, OneLevel

(* The end of the polling.                                                 *)
LEMMA PollText ==
  ASSUME IInv, TextOK, NEW k \in Levels, Poll(k) PROVE TextOK'
<1>1. /\ pc[k] = "print" /\ pc' = [pc EXCEPT ![k] = "send"] /\ call' = call
      /\ pc \in [Levels -> Stage]
  BY DEF Poll, Runs, IInv, TypeOK
<1>2. Follows(k, call[k], "send")
  <2>1. CASE Startup(call[k]) \/ Overwritten(k, call[k])
    BY <2>1 DEF Follows
  <2>2. CASE ~Startup(call[k]) /\ ~Overwritten(k, call[k])
    <3>0. PICK c \in Calls[k] : \E n, m : Tracks(c, n, m, call[k], "print")
      BY <1>1, <2>2 DEF TextOK, Follows
    <3>1. PICK n, m : Tracks(c, n, m, call[k], "print")
      BY <3>0
    <3>2. Tracks(c, n, m, call[k], "send")
      BY <3>1, TracksOn
    <3> QED
      BY <3>2 DEF Follows
  <2> QED
    BY <2>1, <2>2
<1> QED
  BY <1>1, <1>2, OneLevel

(* A byte that is written.                                                 *)
LEMMA SendText ==
  ASSUME IInv, TextOK, NEW k \in Levels, Send(k) PROVE TextOK'
<1> DEFINE rest == Tail(call[k].pending)
           text == Append(call[k].printed, Head(call[k].pending))
           d == Sent(call[k], rest, text)
<1>0. call[k] = Fields(call[k]) /\ call = [l \in Levels |-> call[l]]
  BY DEF IInv, CallOK
<1>1. /\ pc[k] = "send" /\ pc' = [pc EXCEPT ![k] = "print"] /\ pc \in [Levels -> Stage]
      /\ call[k].pending # <<>>
  BY DEF Send, Runs, IInv, TypeOK
<1>2. call' = [call EXCEPT ![k] = d]
  <2>1. k \in DOMAIN call
    BY <1>0
  <2>2. call' = [call EXCEPT ![k].pending = rest, ![k].printed = text]
    BY DEF Send
  <2> QED
    BY <2>1, <2>2 DEF Sent
<1>3. Follows(k, d, "print")
  <2>1. CASE Startup(call[k]) \/ Overwritten(k, call[k])
    <3> HIDE DEF rest, text
    <3>1. d.of = call[k].of /\ d.spilt = call[k].spilt /\ d.format = call[k].format
      BY <1>0, SentText
    <3> HIDE DEF d
    <3>2. Startup(d) \/ Overwritten(k, d)
      BY <2>1, <3>1 DEF Startup, Overwritten
    <3> QED
      BY <3>2 DEF Follows
  <2>2. CASE ~Startup(call[k]) /\ ~Overwritten(k, call[k])
    <3>0. PICK c \in Calls[k] : \E n, m : Tracks(c, n, m, call[k], "send")
      BY <1>1, <2>2 DEF TextOK, Follows
    <3>1. PICK n, m : Tracks(c, n, m, call[k], "send")
      BY <3>0
    <3>2. Tracks(c, n, m, d, "print")
      BY <1>0, <1>1, <3>1, TracksSend
    <3> HIDE DEF d
    <3> QED
      BY <3>2 DEF Follows
  <2> QED
    BY <2>1, <2>2
<1> HIDE DEF d
<1> QED
  BY <1>0, <1>1, <1>2, <1>3, OneLevel

(* The return of a handler.                                                *)
LEMMA HandlerReturnsText ==
  ASSUME IInv, TextOK, NEW k \in Levels, HandlerReturns(k) PROVE TextOK'
<1>1. /\ pc[k] = "return" /\ pc' = [pc EXCEPT ![k] = "idle"] /\ call' = call
      /\ pc \in [Levels -> Stage]
  BY DEF HandlerReturns, Runs, IInv, TypeOK
<1>2. Follows(k, call[k], "idle")
  <2>1. CASE Startup(call[k]) \/ Overwritten(k, call[k])
    BY <2>1 DEF Follows
  <2>2. CASE ~Startup(call[k]) /\ ~Overwritten(k, call[k])
    <3>0. PICK c \in Calls[k] : \E n, m : Tracks(c, n, m, call[k], "return")
      BY <1>1, <2>2 DEF TextOK, Follows
    <3>1. PICK n, m : Tracks(c, n, m, call[k], "return")
      BY <3>0
    <3>2. Tracks(c, n, m, call[k], "idle")
      BY <3>1, TracksIdle
    <3> QED
      BY <3>2 DEF Follows
  <2> QED
    BY <2>1, <2>2
<1> QED
  BY <1>1, <1>2, OneLevel

(* The port is set up and tested before any call of printf.                *)
LEMMA InitSerialText ==
  ASSUME IInv, TextOK, InitSerial PROVE TextOK'
<1>0. 0 \in Levels
  BY ConsoleAssumption DEF Levels
<1>1. /\ pc[0] = "init" /\ pc' = [pc EXCEPT ![0] = "test"] /\ call' = call
      /\ pc \in [Levels -> Stage]
  BY DEF InitSerial, Runs, IInv, TypeOK
<1>2. call[0].of = <<>>
  BY <1>0, <1>1 DEF IInv, Sends, SerialOK
<1>3. Startup(call[0])
  BY <1>0, <1>2, StartupText DEF TextOK
<1>4. Follows(0, call[0], "test")
  BY <1>3 DEF Follows
<1> QED
  BY <1>0, <1>1, <1>4, OneLevel

(* The main thread starts its first line.                                  *)
LEMMA TestSerialText ==
  ASSUME IInv, TextOK, TestSerial PROVE TextOK'
<1> DEFINE ok == <<"o", "k", "\n">>
           d == [Idle EXCEPT !.pending = ok]
<1>0. 0 \in Levels /\ call = [l \in Levels |-> call[l]]
  BY ConsoleAssumption DEF Levels, IInv, CallOK
<1>1. /\ pc[0] = "test" /\ pc' = [pc EXCEPT ![0] = "print"] /\ call' = [call EXCEPT ![0] = d]
      /\ pc \in [Levels -> Stage]
  BY DEF TestSerial, SayOk, Runs, IInv, TypeOK
<1> HIDE DEF ok
<1>2. d.of = Idle.of /\ d.format = Idle.format /\ d.spilt = Idle.spilt
  BY DEF Idle
<1> HIDE DEF d
<1>3. Idle.of = <<>> /\ Idle.format = <<>> /\ ~Idle.spilt
  BY DEF Idle
<1>4. Startup(d)
  BY <1>2, <1>3 DEF Startup
<1>5. Follows(0, d, "print")
  BY <1>4 DEF Follows
<1> QED
  BY <1>0, <1>1, <1>5, OneLevel

(* A level that starts a call of printf.                                   *)
LEMMA PrintfText ==
  ASSUME IInv, TextOK, NEW k \in Levels, NEW c \in Calls[k], NEW halts, Printf(k, c, halts)
  PROVE  TextOK'
<1> DEFINE d == Started(Idle, c.format, c.args, <<c>>, halts)
<1>0. call = [l \in Levels |-> call[l]] /\ pc \in [Levels -> Stage]
  BY DEF IInv, CallOK, TypeOK
<1>1. call' = [call EXCEPT ![k] = d] /\ pc' = [pc EXCEPT ![k] = "print"]
  BY DEF Printf, Started
<1>2. IsFresh(d, c)
  BY StartedText
<1> HIDE DEF d
<1>3. Tracks(c, Len(c.format), Len(c.args), d, "print")
  BY <1>2, TracksStart
<1>4. Follows(k, d, "print")
  BY <1>3 DEF Follows
<1> QED
  BY <1>0, <1>1, <1>4, OneLevel

(* What the main thread and the handlers print is what their formats       *)
(* promise, as far as they have come.                                      *)
THEOREM TextHolds == Spec => []TextOK
<1>1. IInv /\ TextOK /\ [Next]_vars => TextOK'
  <2> SUFFICES ASSUME IInv, TextOK, [Next]_vars PROVE TextOK'
    OBVIOUS
  <2>0. 0 \in Levels
    BY ConsoleAssumption DEF Levels
  <2>1. CASE \E k \in Levels : Thread(k)
    BY <2>1, NextPieceText, EndOfFormatText, PollText, SendText, HandlerReturnsText
       DEF Thread
  <2>2. CASE InitSerial
    BY <2>2, InitSerialText
  <2>3. CASE TestSerial
    BY <2>3, TestSerialText
  <2>4. CASE MainPrints
    <3>1. PICK c \in Calls[0] : Printf(0, c, FALSE)
      BY <2>4 DEF MainPrints
    <3> QED
      BY <2>0, <3>1, PrintfText, Zenon
  <2>5. CASE HandlerPrints
    <3> DEFINE next == level + 1
    <3>1. next \in Levels
      BY <2>5, ConsoleAssumption DEF Levels, HandlerPrints, IInv, TypeOK
    <3>2. PICK c \in Calls[next], halts \in BOOLEAN : Printf(next, c, halts)
      BY <2>5, Zenon DEF HandlerPrints
    <3> HIDE DEF next
    <3> QED
      BY <3>1, <3>2, PrintfText, Zenon
  <2>6. CASE Transmit
    BY <2>6 DEF Transmit, TextOK
  <2>7. CASE UNCHANGED vars
    BY <2>7 DEF vars, TextOK
  <2> QED
    BY <2>1, <2>2, <2>3, <2>4, <2>5, <2>6, <2>7 DEF Next
<1> QED
  BY InitText, InvariantHolds, <1>1, PTL DEF Spec

(* What PrintsFormat says of one level and the text of its call.           *)
PrintsOf(text, d, at) ==
  /\ Len(d.printed) <= Len(text) /\ d.printed = SubSeq(text, 1, Len(d.printed))
  /\ at = "return" =>
       IF d.written = -1 THEN Len(d.printed) < Len(text) /\ Len(text) > IntMax
       ELSE d.printed = text /\ d.written = Len(text)

(* The record of a call bounds what it printed and what it returns.        *)
LEMMA TracksPrints ==
  ASSUME NEW k \in Levels, NEW c \in Calls[k], NEW n, NEW m, NEW d, NEW at,
         Tracks(c, n, m, d, at)
  PROVE  PrintsOf(Texts[c], d, at)
<1> DEFINE rest == Renders(c.format, c.args)[n][m]
           left == Cat(d.pending, rest)
           text == Texts[c]
<1>1. /\ n \in 0 .. Len(c.format) /\ m \in 0 .. Len(c.args)
      /\ d.printed \in Seq(Glyphs) /\ d.pending \in Seq(Glyphs)
      /\ text = Cat(d.printed, left)
  BY DEF Tracks
<1>2. rest \in Seq(Glyphs) /\ (n = 0 => rest = <<>>)
  BY <1>1, CallText
<1> HIDE DEF rest
<1>3. left \in Seq(Glyphs)
  BY <1>1, <1>2, CatFacts
<1> HIDE DEF left
<1>4. Len(text) = Len(d.printed) + Len(left) /\ SubSeq(text, 1, Len(d.printed)) = d.printed
      /\ Len(d.printed) \in Nat /\ Len(left) \in Nat
  BY <1>1, <1>3, CatFacts
<1>5. ASSUME at = "return", d.written # -1
      PROVE  d.printed = text /\ d.written = Len(text)
  <2>1. d.written = Len(d.printed) + Len(d.pending) /\ n = 0 /\ d.pending = <<>>
    BY <1>5 DEF Tracks
  <2>2. left = <<>>
    <3>1. rest = <<>>
      BY <1>2, <2>1
    <3> QED
      BY <1>2, <2>1, <3>1, CatFacts DEF left
  <2>3. text = d.printed
    BY <1>1, <2>2, CatFacts
  <2>4. Len(d.pending) = 0
    BY <2>1, EmptySeq
  <2> QED
    BY <1>4, <2>1, <2>3, <2>4
<1>6. ASSUME d.written = -1
      PROVE  Len(d.printed) < Len(text) /\ Len(text) > IntMax
  <2> DEFINE x == Len(d.printed)
             y == Len(d.pending)
  <2>1. x \in Nat /\ y \in Nat
    BY <1>1, <1>4
  <2> HIDE DEF x, y
  <2>2. d.written # x + y
    BY <1>6, <2>1
  <2> QED
    BY <2>2 DEF Tracks, x, y
<1>7. Len(d.printed) <= Len(text)
  BY <1>4
<1> QED
  BY <1>4, <1>5, <1>6, <1>7 DEF PrintsOf

(* Every call of printf that wrote no number behind buf prints what its    *)
(* format promises, whatever the format, its arguments and the handlers    *)
(* that print in between: the characters in their order, and as many as    *)
(* the result says.                                                        *)
THEOREM FormatIsPrinted == Spec => []PrintsFormat
<1>1. TextOK => PrintsFormat
  <2> SUFFICES ASSUME TextOK, NEW k \in Levels, call[k].of # <<>>, ~call[k].spilt
               PROVE  LET text    == Texts[call[k].of[1]]
                          printed == call[k].printed
                      IN  /\ Len(printed) <= Len(text) /\ printed = SubSeq(text, 1, Len(printed))
                          /\ pc[k] = "return" =>
                               IF call[k].written = -1 THEN Len(printed) < Len(text) /\ Len(text) > IntMax
                               ELSE printed = text /\ call[k].written = Len(text)
    BY DEF PrintsFormat
  <2>0. PICK c \in Calls[k] : \E n, m : Tracks(c, n, m, call[k], pc[k])
    BY DEF TextOK, Follows, Startup, Overwritten
  <2>1. PICK n, m : Tracks(c, n, m, call[k], pc[k])
    BY <2>0
  <2>2. call[k].of = <<c>>
    BY <2>1 DEF Tracks
  <2>3. call[k].of[1] = c
    BY <2>2
  <2>4. PrintsOf(Texts[c], call[k], pc[k])
    BY <2>1, TracksPrints, Zenon
  <2> QED
    BY <2>3, <2>4 DEF PrintsOf
<1> QED
  BY TextHolds, <1>1, PTL

(* Whatever the number of bits, the numbers of base 10 and 16 fit buf: a   *)
(* call that wrote behind it has a %b in its format.                       *)
THEOREM DecimalsFit == Spec => []OnlyBinarySpills
<1>1. TextOK => OnlyBinarySpills
  <2> SUFFICES ASSUME TextOK, NEW k \in Levels, call[k].spilt
               PROVE  \E n \in DOMAIN call[k].of[1].format : call[k].of[1].format[n] = "b"
    BY DEF OnlyBinarySpills
  <2>1. \E c \in Calls[k] : call[k].of = <<c>> /\ \E l \in DOMAIN c.format : c.format[l] = "b"
    <3>1. CASE Overwritten(k, call[k])
      BY <3>1 DEF Overwritten
    <3>2. CASE ~Overwritten(k, call[k])
      <4>0. PICK c \in Calls[k] : \E n, m : Tracks(c, n, m, call[k], pc[k])
        BY <3>2 DEF TextOK, Follows, Startup
      <4>1. PICK n, m : Tracks(c, n, m, call[k], pc[k])
        BY <4>0
      <4> QED
        BY <4>1 DEF Tracks
    <3> QED
      BY <3>1, <3>2
  <2>2. PICK c \in Calls[k] : call[k].of = <<c>> /\ \E l \in DOMAIN c.format : c.format[l] = "b"
    BY <2>1
  <2>3. call[k].of[1] = c
    BY <2>2
  <2> QED
    BY <2>2, <2>3
<1> QED
  BY TextHolds, <1>1, PTL
============================================================================
