--------------------------- MODULE TerminalProofs ---------------------------
(***************************************************************************)
(* How far the cursor of the terminal can stray, for a screen of any size. *)
(* The arithmetic is done once, on numbers (Move and its lemmas), and then *)
(* read off the state of the level that prints.  Level k may start from a  *)
(* cursor that each level below has moved one line or one column too far   *)
(* and not yet put back: its bounds are k further than those of level 0.   *)
(***************************************************************************)
EXTENDS Terminal, TLAPS

(* The row or column l and the line y that a level has in its registers    *)
(* at a stage.                                                             *)
RegistersAt(stage, l, y, b) ==
  /\ stage \in {"storeNewline", "storeNextLine"} => l <= Last + b
  /\ stage \in {"rowArgument", "draw", "storeColumn"} => l <= Columns + b
  /\ stage = "draw" => y <= Last + b

Resting == {"idle", "newline", "storeNewline", "columnArgument", "rowArgument", "draw",
            "advance", "storeColumn"}

(* Where the cursor is at a stage: a row too far only with a column that   *)
(* does not wrap, so that no character adds two rows.                      *)
CursorAt(stage, r, c, b) ==
  /\ r <= Last + b + 1 /\ c <= Columns + b + 1
  /\ stage \in Resting => r <= Last + b /\ c <= Columns + b
  /\ stage = "width" => r <= Last + b \/ c <= Columns
  /\ stage = "wrap" => r <= Last + b
  /\ stage \in {"nextLine", "storeNextLine"} => r <= Last + b /\ c <= Columns
  /\ stage \in {"height", "scroll", "reset"} => c <= Columns

RegisterInv(k) == RegistersAt(pc[k], loaded[k], line[k], k)
CursorInv(k)   == CursorAt(pc[k], row, column, k)

(* No handler is in the middle of a character above level k.               *)
Above(k) == \A j \in Levels : j > k => pc[j] = "idle"

(* The cursor is where the topmost level may leave it, and where any level *)
(* above may find it when it starts to print.                              *)
IInv ==
  /\ TypeOK
  /\ Above(level)
  /\ \A k \in Levels : RegisterInv(k)
  /\ \A k \in Levels : Above(k) => CursorInv(k)

---------------------------------------------------------------------------
(* The screen has two lines or more.                                       *)
LEMMA Sizes ==
  /\ Last \in Nat /\ Last - 1 \in Nat /\ Lines = Last + 1 /\ Columns \in Nat
  /\ Nesting \in Nat /\ 0 \in Levels
BY ScreenAssumption DEF Last, Levels

(* The steps of terminal_putchar on numbers: the stage, the cursor (r, c)  *)
(* and the registers l and y, before and after.                            *)
Read(from, to, r, c, l, y, l2, y2) ==
  \/ from = "idle" /\ to \in {"newline", "columnArgument"} /\ l2 = l /\ y2 = y
  \/ from = "newline" /\ to = "storeNewline" /\ l2 = r /\ y2 = y
  \/ from = "nextLine" /\ to = "storeNextLine" /\ l2 = r /\ y2 = y
  \/ from = "columnArgument" /\ to = "rowArgument" /\ l2 = c /\ y2 = y
  \/ from = "advance" /\ to = "storeColumn" /\ l2 = c /\ y2 = y
  \/ from = "rowArgument" /\ to = "draw" /\ l2 = l /\ y2 = r
  \/ from = "draw" /\ to = "advance" /\ l2 = l /\ y2 = y
  \/ from = "width" /\ to = (IF c > Columns THEN "wrap" ELSE "height") /\ l2 = l /\ y2 = y
  \/ from = "height" /\ to = (IF r > Last THEN "scroll" ELSE "idle") /\ l2 = l /\ y2 = y
  \/ from = "scroll" /\ to = "reset" /\ l2 = l /\ y2 = y

Write(from, to, r, c, l, r2, c2) ==
  \/ from = "storeNewline" /\ to = "return" /\ r2 = l + 1 /\ c2 = c
  \/ from = "storeNextLine" /\ to = "height" /\ r2 = l + 1 /\ c2 = c
  \/ from = "return" /\ to = "width" /\ r2 = r /\ c2 = 0
  \/ from = "wrap" /\ to = "nextLine" /\ r2 = r /\ c2 = 0
  \/ from = "storeColumn" /\ to = "width" /\ r2 = r /\ c2 = l + 1
  \/ from = "reset" /\ to = "idle" /\ r2 = Last - 1 /\ c2 = c

(* A step that reads the cursor keeps the bounds; one that ends the        *)
(* character leaves the cursor on the screen.                              *)
LEMMA ReadKeepsBounds ==
  ASSUME NEW b \in Nat, NEW from, NEW to,
         NEW r \in Nat, NEW c \in Nat, NEW l \in Nat, NEW y \in Nat, NEW l2, NEW y2,
         CursorAt(from, r, c, b), RegistersAt(from, l, y, b), Read(from, to, r, c, l, y, l2, y2)
  PROVE  /\ l2 \in Nat /\ y2 \in Nat
         /\ CursorAt(to, r, c, b) /\ RegistersAt(to, l2, y2, b)
         /\ to = "idle" => r <= Last /\ c <= Columns
BY Sizes DEF Read, CursorAt, RegistersAt, Resting

(* A write of the cursor keeps it within the bounds of the stage it leads  *)
(* to.                                                                     *)
LEMMA WriteKeepsBounds ==
  ASSUME NEW b \in Nat, NEW from, NEW to,
         NEW r \in Nat, NEW c \in Nat, NEW l \in Nat, NEW y \in Nat, NEW r2, NEW c2,
         CursorAt(from, r, c, b), RegistersAt(from, l, y, b), Write(from, to, r, c, l, r2, c2)
  PROVE  /\ r2 \in Nat /\ c2 \in Nat
         /\ CursorAt(to, r2, c2, b) /\ RegistersAt(to, l, y, b)
         /\ to = "idle" => r2 <= Last /\ c2 <= Columns
BY Sizes DEF Write, CursorAt, RegistersAt, Resting

(* The bounds imply the types, and the level that takes over finds them.   *)
LEMMA BoundsFacts ==
  ASSUME NEW b \in Levels, NEW r \in Nat, NEW c \in Nat, NEW stage
  PROVE  /\ CursorAt(stage, r, c, b) =>
              r \in 0 .. Last + Nesting + 1 /\ c \in 0 .. Columns + Nesting + 1
         /\ r <= Last /\ c <= Columns => CursorAt(stage, r, c, b)
         /\ \A k \in Levels : k > b /\ CursorAt(stage, r, c, b) => CursorAt("idle", r, c, k)
<1>0. b \in Nat /\ b <= Nesting
  BY Sizes DEF Levels
<1>1. CursorAt(stage, r, c, b) =>
        r \in 0 .. Last + Nesting + 1 /\ c \in 0 .. Columns + Nesting + 1
  BY <1>0, Sizes DEF CursorAt
<1>2. r <= Last /\ c <= Columns => CursorAt(stage, r, c, b)
  BY <1>0, Sizes DEF CursorAt
<1>3. ASSUME NEW k \in Levels, k > b, CursorAt(stage, r, c, b)
      PROVE  CursorAt("idle", r, c, k)
  <2>1. k \in Nat /\ k >= b + 1
    BY <1>0, <1>3, Sizes DEF Levels
  <2> QED
    BY <1>0, <1>3, <2>1, Sizes DEF CursorAt, Resting
<1> QED
  BY <1>1, <1>2, <1>3

---------------------------------------------------------------------------
(* The steps of a level are those steps on its numbers.                    *)
LEMMA StepFacts ==
  ASSUME TypeOK, NEW k \in Levels, NEW from, NEW to \in Stage, Step(k, from, to)
  PROVE  /\ pc[k] = from /\ pc'[k] = to
         /\ pc' \in [Levels -> Stage]
         /\ \A u \in Levels \ {k} : pc'[u] = pc[u]
BY DEF Step, TypeOK

(* Each step of terminal_putchar reads the cursor or writes it.            *)
LEMMA PutCharReadsOrWrites ==
  ASSUME TypeOK, NEW k \in Levels, PutChar(k)
  PROVE  /\ \E to \in Stage : Step(k, pc[k], to)
         /\ shown' \subseteq Cells
         /\ \/ /\ UNCHANGED <<row, column>>
               /\ \E l2, y2 : /\ loaded' = [loaded EXCEPT ![k] = l2]
                             /\ line' = [line EXCEPT ![k] = y2]
                             /\ Read(pc[k], pc'[k], row, column, loaded[k], line[k], l2, y2)
            \/ /\ UNCHANGED <<loaded, line>>
               /\ Write(pc[k], pc'[k], row, column, loaded[k], row', column')
<1> DEFINE Reads(l2, y2) ==
      /\ UNCHANGED <<row, column>>
      /\ loaded' = [loaded EXCEPT ![k] = l2]
      /\ line' = [line EXCEPT ![k] = y2]
      /\ Read(pc[k], pc'[k], row, column, loaded[k], line[k], l2, y2)
<1> DEFINE Writes ==
      /\ UNCHANGED <<loaded, line>>
      /\ Write(pc[k], pc'[k], row, column, loaded[k], row', column')
<1> DEFINE Goal ==
      /\ \E to \in Stage : Step(k, pc[k], to)
      /\ shown' \subseteq Cells
      /\ (\E l2, y2 : Reads(l2, y2)) \/ Writes
<1>1. /\ loaded = [loaded EXCEPT ![k] = loaded[k]] /\ line = [line EXCEPT ![k] = line[k]]
      /\ shown \subseteq Cells
  BY DEF TypeOK
<1>2. ASSUME NEW from, NEW to \in Stage, Step(k, from, to)
      PROVE  pc[k] = from /\ pc'[k] = to /\ \E stage \in Stage : Step(k, pc[k], stage)
  BY <1>2, StepFacts
<1>3. CASE Call(k, "newline") \/ Call(k, "columnArgument")
  <2>1. Reads(loaded[k], line[k])
    BY <1>1, <1>2, <1>3 DEF Call, Read, Stage
  <2> QED
    BY <1>1, <1>2, <1>3, <2>1 DEF Call, Stage
<1>4. CASE LoadRow(k, "newline", "storeNewline") \/ LoadRow(k, "nextLine", "storeNextLine")
  <2>1. Reads(row, line[k])
    BY <1>1, <1>2, <1>4 DEF LoadRow, Read, Stage
  <2> QED
    BY <1>1, <1>2, <1>4, <2>1 DEF LoadRow, Stage
<1>5. CASE \/ LoadColumn(k, "columnArgument", "rowArgument")
           \/ LoadColumn(k, "advance", "storeColumn")
  <2>1. Reads(column, line[k])
    BY <1>1, <1>2, <1>5 DEF LoadColumn, Read, Stage
  <2> QED
    BY <1>1, <1>2, <1>5, <2>1 DEF LoadColumn, Stage
<1>6. CASE LoadLine(k)
  <2>1. Reads(loaded[k], row)
    BY <1>1, <1>2, <1>6 DEF LoadLine, Read, Stage
  <2> QED
    BY <1>1, <1>2, <1>6, <2>1 DEF LoadLine, Stage
<1>7. CASE Draw(k) \/ Scroll(k)
  <2>1. Reads(loaded[k], line[k])
    BY <1>1, <1>2, <1>7 DEF Draw, Scroll, Read, Stage
  <2> QED
    BY <1>1, <1>2, <1>7, <2>1 DEF Draw, Scroll, ScrollUp, DeleteLine, Stage
<1>8. CASE CheckWidth(k)
  <2> DEFINE to == IF column > Columns THEN "wrap" ELSE "height"
  <2>1. Step(k, "width", to) /\ to \in Stage
    BY <1>8 DEF CheckWidth, Stage
  <2>2. pc[k] = "width" /\ pc'[k] = to
    BY <1>2, <2>1
  <2>3. Reads(loaded[k], line[k])
    BY <1>1, <1>8, <2>2 DEF CheckWidth, Read
  <2> QED
    BY <1>1, <1>2, <1>8, <2>1, <2>3 DEF CheckWidth
<1>9. CASE CheckHeight(k)
  <2> DEFINE to == IF row > Last THEN "scroll" ELSE "idle"
  <2>1. Step(k, "height", to) /\ to \in Stage
    BY <1>9 DEF CheckHeight, Stage
  <2>2. pc[k] = "height" /\ pc'[k] = to
    BY <1>2, <2>1
  <2>3. Reads(loaded[k], line[k])
    BY <1>1, <1>9, <2>2 DEF CheckHeight, Read
  <2> QED
    BY <1>1, <1>2, <1>9, <2>1, <2>3 DEF CheckHeight
<1>10. CASE StoreRow(k, "storeNewline", "return") \/ StoreRow(k, "storeNextLine", "height")
  <2>1. Writes
    BY <1>2, <1>10 DEF StoreRow, Write, Stage
  <2> QED
    BY <1>1, <1>2, <1>10, <2>1 DEF StoreRow, Stage
<1>11. CASE FirstColumn(k, "return", "width") \/ FirstColumn(k, "wrap", "nextLine")
  <2>1. Writes
    BY <1>2, <1>11 DEF FirstColumn, Write, Stage
  <2> QED
    BY <1>1, <1>2, <1>11, <2>1 DEF FirstColumn, Stage
<1>12. CASE StoreColumn(k)
  <2>1. Writes
    BY <1>2, <1>12 DEF StoreColumn, Write, Stage
  <2> QED
    BY <1>1, <1>2, <1>12, <2>1 DEF StoreColumn, Stage
<1>13. CASE ResetRow(k)
  <2>1. Writes
    BY <1>2, <1>13 DEF ResetRow, Write, Stage
  <2> QED
    BY <1>1, <1>2, <1>13, <2>1 DEF ResetRow, Stage
<1>14. Goal
  BY <1>3, <1>4, <1>5, <1>6, <1>7, <1>8, <1>9, <1>10, <1>11, <1>12, <1>13 DEF PutChar
<1> QED
  BY <1>14

(* A step of the level that prints keeps its bounds.                      *)
LEMMA PutCharKeepsBounds ==
  ASSUME TypeOK, NEW k \in Levels, RegisterInv(k), CursorInv(k), PutChar(k)
  PROVE  /\ TypeOK' /\ RegisterInv(k)' /\ CursorInv(k)'
         /\ pc'[k] = "idle" => row' <= Last /\ column' <= Columns
         /\ \A u \in Levels \ {k} : pc'[u] = pc[u] /\ (RegisterInv(u) => RegisterInv(u)')
<1>1. /\ k \in Nat
      /\ row \in Nat /\ column \in Nat /\ loaded[k] \in Nat /\ line[k] \in Nat
      /\ loaded \in [Levels -> Nat] /\ line \in [Levels -> Nat]
  BY Sizes DEF Levels, TypeOK
<1>2. /\ CursorAt(pc[k], row, column, k)
      /\ RegistersAt(pc[k], loaded[k], line[k], k)
  BY DEF RegisterInv, CursorInv
<1>3. /\ \A u \in Levels \ {k} : pc'[u] = pc[u]
      /\ pc' \in [Levels -> Stage]
      /\ UNCHANGED <<enabled, level>>
      /\ shown' \subseteq Cells
  <2>1. PICK to \in Stage : Step(k, pc[k], to)
    BY PutCharReadsOrWrites
  <2>2. UNCHANGED <<enabled, level>>
    BY <2>1 DEF Step
  <2> QED
    BY <2>1, <2>2, StepFacts, PutCharReadsOrWrites
<1>4. /\ row' \in Nat /\ column' \in Nat
      /\ CursorAt(pc'[k], row', column', k)
      /\ RegistersAt(pc'[k], loaded'[k], line'[k], k)
      /\ pc'[k] = "idle" => row' <= Last /\ column' <= Columns
      /\ loaded' \in [Levels -> Nat] /\ line' \in [Levels -> Nat]
      /\ \A u \in Levels \ {k} : loaded'[u] = loaded[u] /\ line'[u] = line[u]
  <2>1. CASE /\ UNCHANGED <<row, column>>
             /\ \E l2, y2 : /\ loaded' = [loaded EXCEPT ![k] = l2]
                           /\ line' = [line EXCEPT ![k] = y2]
                           /\ Read(pc[k], pc'[k], row, column, loaded[k], line[k], l2, y2)
    <3>1. PICK l2, y2 : /\ loaded' = [loaded EXCEPT ![k] = l2]
                        /\ line' = [line EXCEPT ![k] = y2]
                        /\ Read(pc[k], pc'[k], row, column, loaded[k], line[k], l2, y2)
      BY <2>1
    <3>2. /\ l2 \in Nat /\ y2 \in Nat
          /\ CursorAt(pc'[k], row, column, k) /\ RegistersAt(pc'[k], l2, y2, k)
          /\ pc'[k] = "idle" => row <= Last /\ column <= Columns
      BY <1>1, <1>2, <3>1, ReadKeepsBounds
    <3>3. /\ loaded'[k] = l2 /\ line'[k] = y2
          /\ loaded' \in [Levels -> Nat] /\ line' \in [Levels -> Nat]
          /\ \A u \in Levels \ {k} : loaded'[u] = loaded[u] /\ line'[u] = line[u]
      BY <1>1, <3>1, <3>2
    <3> QED
      BY <1>1, <2>1, <3>2, <3>3
  <2>2. CASE /\ UNCHANGED <<loaded, line>>
             /\ Write(pc[k], pc'[k], row, column, loaded[k], row', column')
    BY <1>1, <1>2, <2>2, WriteKeepsBounds
  <2> QED
    BY <2>1, <2>2, PutCharReadsOrWrites
<1>5. row' \in 0 .. Last + Nesting + 1 /\ column' \in 0 .. Columns + Nesting + 1
  BY <1>1, <1>4, BoundsFacts
<1>6. TypeOK'
  BY <1>3, <1>4, <1>5 DEF TypeOK
<1> QED
  BY <1>3, <1>4, <1>6 DEF RegisterInv, CursorInv

---------------------------------------------------------------------------
(* The initial states.                                                     *)
LEMMA InitIInv == Init => IInv
<1> SUFFICES ASSUME Init PROVE IInv
  OBVIOUS
<1>1. /\ row = 0 /\ column = 0 /\ shown = {} /\ level = 0 /\ 0 \in Levels
      /\ \A k \in Levels : pc[k] = "idle" /\ loaded[k] = 0 /\ line[k] = 0
      /\ pc \in [Levels -> Stage] /\ loaded \in [Levels -> Nat] /\ line \in [Levels -> Nat]
  BY Sizes DEF Init, Stage, Levels
<1>2. enabled \in BOOLEAN
  BY Zenon DEF Init
<1>3. 0 \in 0 .. Last + Nesting + 1 /\ 0 \in 0 .. Columns + Nesting + 1
  BY Sizes
<1>4. TypeOK
  BY <1>1, <1>2, <1>3 DEF TypeOK
<1>5. \A k \in Levels : RegisterInv(k)
  BY <1>1 DEF RegisterInv, RegistersAt
<1>6. \A k \in Levels : CursorInv(k)
  <2>1. 0 <= Last /\ 0 <= Columns
    BY Sizes
  <2> QED
    BY <1>1, <2>1, BoundsFacts DEF CursorInv
<1> QED
  BY <1>1, <1>4, <1>5, <1>6 DEF IInv, Above

(* The level that runs finds the cursor within its bounds.                 *)
LEMMA RunningFindsBounds ==
  ASSUME IInv, NEW k \in Levels, PutChar(k)
  PROVE  CursorInv(k) /\ RegisterInv(k) /\ level = k /\ Above(k) /\ UNCHANGED <<enabled, level>>
<1>1. level = k /\ UNCHANGED <<enabled, level>>
  BY PutCharReadsOrWrites DEF IInv, Step
<1> QED
  BY <1>1 DEF IInv

(* Each action in turn.                                                    *)
LEMMA StepIInv == IInv /\ [Next]_vars => IInv'
<1> SUFFICES ASSUME IInv, [Next]_vars PROVE IInv'
  OBVIOUS
<1>1. CASE \E k \in Levels : PutChar(k)
  <2>1. PICK k \in Levels : PutChar(k)
    BY <1>1
  <2>2. TypeOK /\ CursorInv(k) /\ RegisterInv(k) /\ level = k /\ Above(k) /\ level' = level
    BY <2>1, RunningFindsBounds DEF IInv
  <2>3. /\ TypeOK' /\ RegisterInv(k)' /\ CursorInv(k)'
        /\ pc'[k] = "idle" => row' <= Last /\ column' <= Columns
        /\ \A u \in Levels \ {k} : pc'[u] = pc[u] /\ (RegisterInv(u) => RegisterInv(u)')
    BY <2>1, <2>2, PutCharKeepsBounds
  <2>4. \A u \in Levels : RegisterInv(u)'
    BY <2>3 DEF IInv
  <2>5. Above(level)'
    BY <2>2, <2>3, Sizes DEF Above, Levels
  <2>6. ASSUME NEW j \in Levels, Above(j)' PROVE CursorInv(j)'
    <3>1. row' \in Nat /\ column' \in Nat /\ j \in Nat /\ k \in Nat
      BY <2>3, Sizes DEF TypeOK, Levels
    <3>2. CASE j = k
      BY <2>3, <3>2
    <3>3. CASE j > k
      <4>1. pc'[j] = "idle"
        BY <2>2, <2>3, <3>1, <3>3 DEF Above
      <4>2. CursorAt("idle", row', column', j)
        BY <2>3, <3>1, <3>3, BoundsFacts DEF CursorInv
      <4> QED
        BY <4>1, <4>2 DEF CursorInv
    <3>4. CASE j < k
      <4>1. pc'[k] = "idle"
        BY <2>6, <3>1, <3>4 DEF Above
      <4> QED
        BY <2>3, <3>1, <4>1, BoundsFacts DEF CursorInv
    <3> QED
      BY <3>1, <3>2, <3>3, <3>4
  <2> QED
    BY <2>3, <2>4, <2>5, <2>6 DEF IInv
<1>2. CASE EnableInterrupts \/ Interrupt \/ HandlerReturns
  <2>1. UNCHANGED <<row, column, shown, pc, loaded, line>>
    BY <1>2 DEF EnableInterrupts, Interrupt, HandlerReturns
  <2>2. enabled' \in BOOLEAN /\ level' \in Levels
    <3>1. enabled' \in BOOLEAN
      BY <1>2, Zenon DEF EnableInterrupts, Interrupt, HandlerReturns, IInv, TypeOK
    <3>2. level \in Levels
      BY DEF IInv, TypeOK
    <3>3. level' \in Levels
      BY <1>2, <3>2, Sizes DEF EnableInterrupts, Interrupt, HandlerReturns, Levels
    <3> QED
      BY <3>1, <3>3
  <2>3. Above(level)'
    BY <1>2, <2>1, Sizes DEF EnableInterrupts, Interrupt, HandlerReturns, IInv, TypeOK, Above, Levels
  <2> QED
    BY <2>1, <2>2, <2>3 DEF IInv, TypeOK, RegisterInv, CursorInv, Above
<1>3. CASE UNCHANGED vars
  BY <1>3 DEF vars, IInv, TypeOK, RegisterInv, CursorInv, Above
<1> QED
  BY <1>1, <1>2, <1>3 DEF Next

(* The bounds hold of the terminal.                                        *)
THEOREM InvariantHolds == Spec => []IInv
<1>1. Init => IInv
  BY InitIInv
<1>2. IInv /\ [Next]_vars => IInv'
  BY StepIInv
<1> QED
  BY <1>1, <1>2, PTL DEF Spec

(* The cursor and the registers of every level keep their types.           *)
THEOREM TypeCorrect == Spec => []TypeOK
<1>1. IInv => TypeOK
  BY DEF IInv
<1> QED
  BY <1>1, InvariantHolds, PTL

(* Between two characters the cursor is on the screen or just behind its   *)
(* last column, whatever handlers print between the loads and stores.      *)
THEOREM CursorComesToRest == Spec => []CursorRests
<1>1. IInv => CursorRests
  <2> SUFFICES ASSUME IInv, \A k \in Levels : pc[k] = "idle"
               PROVE  row <= Last /\ column <= Columns
    BY DEF CursorRests
  <2>1. CursorAt("idle", row, column, 0) /\ row \in Nat /\ column \in Nat
    BY Sizes DEF IInv, CursorInv, Above, Levels, TypeOK
  <2> QED
    BY <2>1, Sizes DEF CursorAt, Resting
<1> QED
  BY <1>1, InvariantHolds, PTL

(* A draw is at most one line below the screen for each handler it runs on *)
(* top of, and at most as many columns and one beside it.                  *)
THEOREM StraysAreBounded == Spec => []DrawsStrayLittle
<1>1. IInv => DrawsStrayLittle
  <2> SUFFICES ASSUME IInv, NEW k \in Levels, pc[k] = "draw"
               PROVE  line[k] <= Last + k /\ loaded[k] <= Columns + k
    BY DEF DrawsStrayLittle
  <2>1. RegistersAt("draw", loaded[k], line[k], k)
    BY DEF IInv, RegisterInv
  <2> QED
    BY <2>1 DEF RegistersAt
<1> QED
  BY <1>1, InvariantHolds, PTL

---------------------------------------------------------------------------
(* Without interrupts a row in a register is the row of the cursor, and    *)
(* the text ends at the cursor; a scroll moves the text before the cursor. *)
NothingBelow(l) == \A cell \in shown : cell[1] <= l

TextInv ==
  ~enabled =>
    /\ level = 0
    /\ pc[0] \in {"storeNewline", "storeNextLine"} => loaded[0] = row
    /\ pc[0] = "draw" => line[0] = row
    /\ NothingBelow(IF pc[0] = "reset" THEN Last - 1 ELSE row)

(* A scroll leaves the last line empty.                                    *)
LEMMA ScrollClearsLast ==
  ASSUME NEW cells
  PROVE  \A cell \in DeleteLine(Last, ScrollUp(cells)) : cell[1] <= Last - 1
<1> SUFFICES ASSUME NEW cell \in DeleteLine(Last, ScrollUp(cells))
             PROVE  cell[1] <= Last - 1
  OBVIOUS
<1>1. cell \in Cells /\ cell[1] # Last
  BY DEF DeleteLine, ScrollUp
<1>2. cell[1] \in 0 .. Last
  BY <1>1 DEF Cells
<1> QED
  BY <1>1, <1>2, Sizes

(* A step of the main thread before interrupts are enabled.                *)
LEMMA PutCharKeepsText ==
  ASSUME IInv, TextInv, ~enabled, PutChar(0)
  PROVE  TextInv'
<1>1. /\ level = 0 /\ row \in Nat /\ 0 \in Levels /\ TypeOK
      /\ loaded \in [Levels -> Nat] /\ line \in [Levels -> Nat]
      /\ shown \subseteq Cells /\ pc \in [Levels -> Stage]
      /\ \A cell \in shown : cell[1] \in 0 .. Last
  <2>1. level = 0
    BY Zenon DEF TextInv
  <2>2. TypeOK
    BY DEF IInv
  <2>3. \A cell \in shown : cell[1] \in 0 .. Last
    BY <2>2 DEF TypeOK, Cells
  <2> QED
    BY <2>1, <2>2, <2>3, Sizes DEF TypeOK
<1>2. ASSUME NEW from, NEW to \in Stage, Step(0, from, to)
      PROVE  /\ pc[0] = from /\ pc'[0] = to
             /\ UNCHANGED <<enabled, level>>
  BY <1>1, <1>2, StepFacts DEF Step
<1>3. CASE Call(0, "newline") \/ Call(0, "columnArgument")
  <2>1. /\ pc[0] = "idle" /\ pc'[0] \in {"newline", "columnArgument"}
        /\ UNCHANGED <<row, shown, enabled, level>>
    BY <1>2, <1>3 DEF Call, Stage
  <2> QED
    BY <2>1 DEF TextInv, NothingBelow
<1>4. CASE \/ LoadRow(0, "newline", "storeNewline")
           \/ LoadRow(0, "nextLine", "storeNextLine")
  <2>1. /\ pc[0] \in {"newline", "nextLine"}
        /\ pc'[0] \in {"storeNewline", "storeNextLine"}
        /\ loaded'[0] = row
        /\ UNCHANGED <<row, shown, enabled, level>>
    BY <1>1, <1>2, <1>4 DEF LoadRow, Stage
  <2> QED
    BY <2>1 DEF TextInv, NothingBelow
<1>5. CASE \/ LoadColumn(0, "columnArgument", "rowArgument")
           \/ LoadColumn(0, "advance", "storeColumn")
  <2>1. /\ pc[0] \in {"columnArgument", "advance"}
        /\ pc'[0] \in {"rowArgument", "storeColumn"}
        /\ UNCHANGED <<row, shown, enabled, level>>
    BY <1>2, <1>5 DEF LoadColumn, Stage
  <2> QED
    BY <2>1 DEF TextInv, NothingBelow
<1>6. CASE LoadLine(0)
  <2>1. /\ pc[0] = "rowArgument" /\ pc'[0] = "draw" /\ line'[0] = row
        /\ UNCHANGED <<row, shown, enabled, level>>
    BY <1>1, <1>2, <1>6 DEF LoadLine, Stage
  <2> QED
    BY <2>1 DEF TextInv, NothingBelow
<1>7. CASE Draw(0)
  <2>1. /\ pc[0] = "draw" /\ pc'[0] = "advance"
        /\ shown' \subseteq shown \union {<<line[0], loaded[0]>>}
        /\ UNCHANGED <<row, enabled, level>>
    BY <1>2, <1>7 DEF Draw, Stage
  <2>2. line[0] = row /\ NothingBelow(row)
    BY <2>1 DEF TextInv
  <2>3. NothingBelow(row)'
    BY <1>1, <2>1, <2>2 DEF NothingBelow
  <2> QED
    BY <1>1, <2>1, <2>3 DEF TextInv
<1>8. CASE \/ StoreRow(0, "storeNewline", "return")
           \/ StoreRow(0, "storeNextLine", "height")
  <2>1. /\ pc[0] \in {"storeNewline", "storeNextLine"}
        /\ pc'[0] \in {"return", "height"}
        /\ row' = loaded[0] + 1
        /\ UNCHANGED <<shown, enabled, level>>
    BY <1>2, <1>8 DEF StoreRow, Stage
  <2>2. row' = row + 1 /\ NothingBelow(row)
    BY <2>1 DEF TextInv
  <2>3. NothingBelow(row)'
    BY <1>1, <2>1, <2>2, Sizes DEF NothingBelow
  <2> QED
    BY <1>1, <2>1, <2>3 DEF TextInv
<1>9. CASE \/ FirstColumn(0, "return", "width") \/ FirstColumn(0, "wrap", "nextLine")
           \/ StoreColumn(0)
  <2>1. /\ pc[0] \in {"return", "wrap", "storeColumn"}
        /\ pc'[0] \in {"width", "nextLine"}
        /\ UNCHANGED <<row, shown, enabled, level>>
    BY <1>2, <1>9 DEF FirstColumn, StoreColumn, Stage
  <2> QED
    BY <2>1 DEF TextInv, NothingBelow
<1>10. CASE CheckWidth(0)
  <2>1. /\ pc[0] = "width" /\ pc'[0] \in {"wrap", "height"}
        /\ UNCHANGED <<row, shown, enabled, level>>
    BY <1>2, <1>10 DEF CheckWidth, Stage
  <2> QED
    BY <2>1 DEF TextInv, NothingBelow
<1>11. CASE CheckHeight(0)
  <2>1. /\ pc[0] = "height" /\ pc'[0] \in {"scroll", "idle"}
        /\ UNCHANGED <<row, shown, enabled, level>>
    BY <1>2, <1>11 DEF CheckHeight, Stage
  <2> QED
    BY <2>1 DEF TextInv, NothingBelow
<1>12. CASE Scroll(0)
  <2>1. /\ pc'[0] = "reset" /\ shown' = DeleteLine(Last, ScrollUp(shown))
        /\ UNCHANGED <<enabled, level>>
    BY <1>2, <1>12 DEF Scroll, Stage
  <2>2. NothingBelow(Last - 1)'
    BY <2>1, ScrollClearsLast DEF NothingBelow
  <2> QED
    BY <1>1, <2>1, <2>2 DEF TextInv, Last
<1>13. CASE ResetRow(0)
  <2>1. /\ pc[0] = "reset" /\ pc'[0] = "idle" /\ row' = Last - 1
        /\ UNCHANGED <<shown, enabled, level>>
    BY <1>2, <1>13 DEF ResetRow, Stage
  <2> QED
    BY <2>1 DEF TextInv, NothingBelow
<1> QED
  BY <1>3, <1>4, <1>5, <1>6, <1>7, <1>8, <1>9, <1>10, <1>11, <1>12, <1>13 DEF PutChar

(* Every other step enables interrupts or follows a handler.               *)
LEMMA StepTextInv == IInv /\ TextInv /\ [Next]_vars => TextInv'
<1> SUFFICES ASSUME IInv, TextInv, [Next]_vars PROVE TextInv'
  OBVIOUS
<1>1. ASSUME NEW k \in Levels, PutChar(k) PROVE TextInv'
  <2>1. UNCHANGED enabled /\ level = k
    BY <1>1, PutCharReadsOrWrites DEF IInv, Step
  <2>2. CASE enabled
    BY <2>1, <2>2 DEF TextInv
  <2>3. CASE ~enabled
    <3>1. k = 0
      BY <2>1, <2>3 DEF TextInv
    <3> QED
      BY <1>1, <2>3, <3>1, PutCharKeepsText
  <2> QED
    BY <2>2, <2>3
<1>2. CASE EnableInterrupts \/ Interrupt \/ HandlerReturns
  <2>1. enabled' \/ (level # 0 /\ UNCHANGED enabled)
    BY <1>2 DEF EnableInterrupts, Interrupt, HandlerReturns
  <2> QED
    BY <2>1 DEF TextInv
<1>3. CASE UNCHANGED vars
  BY <1>3 DEF vars, TextInv, NothingBelow
<1> QED
  BY <1>1, <1>2, <1>3 DEF Next

(* What is printed before interrupts are enabled ends at the cursor: no    *)
(* draw leaves the screen by a line, and a scroll takes the text along.    *)
THEOREM TextStaysAboveCursor == Spec => []TextEndsAtCursor
<1>1. Init => TextInv
  BY Sizes DEF Init, TextInv, NothingBelow
<1>2. IInv /\ TextInv /\ [Next]_vars => TextInv'
  BY StepTextInv
<1>3. IInv /\ TextInv => TextEndsAtCursor
  <2> SUFFICES ASSUME IInv, TextInv, ~enabled
               PROVE  /\ pc[0] = "draw" => line[0] <= Last
                      /\ pc[0] = "idle" => \A cell \in shown : cell[1] <= row
    BY DEF TextEndsAtCursor
  <2>1. pc[0] = "draw" => line[0] <= Last
    <3>1. RegistersAt(pc[0], loaded[0], line[0], 0)
      BY Sizes DEF IInv, RegisterInv
    <3> QED
      BY <3>1, Sizes DEF RegistersAt
  <2>2. pc[0] = "idle" => \A cell \in shown : cell[1] <= row
    BY DEF TextInv, NothingBelow
  <2> QED
    BY <2>1, <2>2
<1> QED
  BY <1>1, <1>2, <1>3, InvariantHolds, PTL DEF Spec
=============================================================================
