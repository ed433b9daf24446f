------------------------------ MODULE Terminal ------------------------------
(***************************************************************************)
(* The text terminal of tty.c on the framebuffer: terminal_putchar called  *)
(* by the main thread and by handlers that interrupt it, and each other,   *)
(* between any two of its loads and stores (the kernel is built without    *)
(* optimization).  The main thread is level 0; the handler that interrupts *)
(* level k is level k + 1.  Positions are cells of one character; a draw   *)
(* and a scroll are one step each.                                         *)
(***************************************************************************)
EXTENDS Integers

CONSTANTS
  Columns,   (* fb.width / char_info.width, "terminal width" of kernel.c      *)
  Lines,     (* fb.height / char_info.height, "terminal height" of kernel.c   *)
  Nesting    (* how deep handlers nest                                        *)

(* A bootloader's framebuffer holds two lines of text at least.            *)
ASSUME ScreenAssumption ==
  Columns \in Nat \ {0} /\ Lines \in Nat \ {0, 1} /\ Nesting \in Nat

Last  == Lines - 1     (* terminal_height *)
Cells == (0 .. Last) \X (0 .. Columns - 1)

Levels == 0 .. Nesting

VARIABLES
  row, column,  (* terminal_row and terminal_column                          *)
  shown,        (* cells of the screen that hold a character                 *)
  pc,           (* level -> what its terminal_putchar does next              *)
  loaded,       (* level -> the row or column it has in a register           *)
  line,         (* level -> y of its terminal_put_entry_at                   *)
  enabled,      (* handlers are installed and interrupts enabled             *)
  level         (* the level that has the CPU                                *)

vars == <<row, column, shown, pc, loaded, line, enabled, level>>

Stage == {"idle", "newline", "storeNewline", "return", "columnArgument",
          "rowArgument", "draw", "advance", "storeColumn", "width", "wrap",
          "nextLine", "storeNextLine", "height", "scroll", "reset"}

(* terminal_initialize, after clear_terminal.                              *)
Init ==
  /\ row = 0 /\ column = 0
  /\ shown = {}
  /\ pc = [k \in Levels |-> "idle"]
  /\ loaded = [k \in Levels |-> 0]
  /\ line = [k \in Levels |-> 0]
  /\ enabled = FALSE /\ level = 0

---------------------------------------------------------------------------
(* terminal_putchar in level k, which has the CPU.                         *)
Step(k, from, to) ==
  /\ level = k /\ pc[k] = from
  /\ pc' = [pc EXCEPT ![k] = to]
  /\ UNCHANGED <<enabled, level>>

Call(k, to) ==
  /\ Step(k, "idle", to)
  /\ UNCHANGED <<row, column, shown, loaded, line>>

LoadColumn(k, from, to) ==
  /\ Step(k, from, to)
  /\ loaded' = [loaded EXCEPT ![k] = column]
  /\ UNCHANGED <<row, column, shown, line>>

LoadLine(k) ==
  /\ Step(k, "rowArgument", "draw")
  /\ line' = [line EXCEPT ![k] = row]
  /\ UNCHANGED <<row, column, shown, loaded>>

(* terminal_put_entry_at.  The pixels of a cell that is not on the screen  *)
(* spoil another one or fall behind the framebuffer.                       *)
Draw(k) ==
  /\ Step(k, "draw", "advance")
  /\ shown' = shown \union ({<<line[k], loaded[k]>>} \intersect Cells)
  /\ UNCHANGED <<row, column, loaded, line>>

StoreColumn(k) ==
  /\ Step(k, "storeColumn", "width")
  /\ column' = loaded[k] + 1
  /\ UNCHANGED <<row, shown, loaded, line>>

LoadRow(k, from, to) ==
  /\ Step(k, from, to)
  /\ loaded' = [loaded EXCEPT ![k] = row]
  /\ UNCHANGED <<row, column, shown, line>>

StoreRow(k, from, to) ==
  /\ Step(k, from, to)
  /\ row' = loaded[k] + 1
  /\ UNCHANGED <<column, shown, loaded, line>>

FirstColumn(k, from, to) ==
  /\ Step(k, from, to)
  /\ column' = 0
  /\ UNCHANGED <<row, shown, loaded, line>>

(* Mutant of CheckWidth: a line may hold one more character.               *)
CheckWidthLate(k) ==
  /\ Step(k, "width", IF column > Columns + 1 THEN "wrap" ELSE "height")
  /\ UNCHANGED <<row, column, shown, loaded, line>>

CheckWidth(k) ==
  /\ Step(k, "width", IF column > Columns THEN "wrap" ELSE "height")
  /\ UNCHANGED <<row, column, shown, loaded, line>>

(* Mutant of CheckHeight: the screen scrolls a line too late.              *)
CheckHeightLate(k) ==
  /\ Step(k, "height", IF row > Last + 1 THEN "scroll" ELSE "idle")
  /\ UNCHANGED <<row, column, shown, loaded, line>>

CheckHeight(k) ==
  /\ Step(k, "height", IF row > Last THEN "scroll" ELSE "idle")
  /\ UNCHANGED <<row, column, shown, loaded, line>>

(* fb_scroll_up_by moves every line up, delete_line clears the last.       *)
ScrollUp(cells) ==
  {cell \in Cells : IF cell[1] < Last THEN <<cell[1] + 1, cell[2]>> \in cells
                                      ELSE cell \in cells}

(* Mutant of DeleteLine: the line above is deleted.                        *)
DeleteLineAbove(n, cells) == {cell \in cells : cell[1] # n - 1}

DeleteLine(n, cells) == {cell \in cells : cell[1] # n}

Scroll(k) ==
  /\ Step(k, "scroll", "reset")
  /\ shown' = DeleteLine(Last, ScrollUp(shown))
  /\ UNCHANGED <<row, column, loaded, line>>

(* Mutant of ResetRow: the row is left below the screen.                   *)
ResetRowForgotten(k) ==
  /\ Step(k, "reset", "idle")
  /\ UNCHANGED <<row, column, shown, loaded, line>>

ResetRow(k) ==
  /\ Step(k, "reset", "idle")
  /\ row' = Last - 1
  /\ UNCHANGED <<column, shown, loaded, line>>

PutChar(k) ==
  \/ Call(k, "newline") \/ Call(k, "columnArgument")
  \/ LoadRow(k, "newline", "storeNewline")
  \/ StoreRow(k, "storeNewline", "return")
  \/ FirstColumn(k, "return", "width")
  \/ LoadColumn(k, "columnArgument", "rowArgument")
  \/ LoadLine(k)
  \/ Draw(k)
  \/ LoadColumn(k, "advance", "storeColumn")
  \/ StoreColumn(k)
  \/ CheckWidth(k)
  \/ FirstColumn(k, "wrap", "nextLine")
  \/ LoadRow(k, "nextLine", "storeNextLine")
  \/ StoreRow(k, "storeNextLine", "height")
  \/ CheckHeight(k)
  \/ Scroll(k)
  \/ ResetRow(k)

---------------------------------------------------------------------------
(* enable_interrupts in _kernel_start, after early_output                  *)
EnableInterrupts ==
  /\ ~enabled /\ pc[0] = "idle"
  /\ enabled' = TRUE
  /\ UNCHANGED <<row, column, shown, pc, loaded, line, level>>

(* An interrupt, whose handler prints what it likes: in the main thread of *)
(* any kind, in a handler an NMI or an exception.                          *)
Interrupt ==
  /\ enabled /\ level < Nesting
  /\ level' = level + 1
  /\ UNCHANGED <<row, column, shown, pc, loaded, line, enabled>>

(* The handler of an IRQ returns to the main thread, as no other code runs *)
(* with interrupts enabled; one of an exception or NMI panics.             *)
HandlerReturns ==
  /\ level = 1 /\ pc[1] = "idle"
  /\ level' = 0
  /\ UNCHANGED <<row, column, shown, pc, loaded, line, enabled>>

Next == \/ \E k \in Levels : PutChar(k)
        \/ EnableInterrupts \/ Interrupt \/ HandlerReturns

Spec == Init /\ [][Next]_vars
---------------------------------------------------------------------------
TypeOK ==
  /\ row \in 0 .. Last + Nesting + 1 /\ column \in 0 .. Columns + Nesting + 1
  /\ shown \subseteq Cells
  /\ pc \in [Levels -> Stage]
  /\ loaded \in [Levels -> Nat] /\ line \in [Levels -> Nat]
  /\ enabled \in BOOLEAN /\ level \in Levels

(* Between two characters the cursor stands on a line of the screen and at *)
(* most behind its last column, also when handlers printed in between the  *)
(* loads and stores of the main thread and of each other.                  *)
CursorRests ==
  (\A k \in Levels : pc[k] = "idle") => row <= Last /\ column <= Columns

(* A draw leaves the screen by one line at most for each handler on top of *)
(* the main thread, and by one column more than that.                      *)
DrawsStrayLittle ==
  \A k \in Levels : pc[k] = "draw" => line[k] <= Last + k /\ loaded[k] <= Columns + k

(* Until interrupts are enabled no draw is above or below the screen, and  *)
(* nothing is shown below the line of the cursor: a scroll takes the text  *)
(* with the cursor.                                                        *)
TextEndsAtCursor ==
  ~enabled =>
    /\ pc[0] = "draw" => line[0] <= Last
    /\ pc[0] = "idle" => \A cell \in shown : cell[1] <= row
===========================================================================
