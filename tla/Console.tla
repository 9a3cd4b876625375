------------------------------ MODULE Console ------------------------------
(***************************************************************************)
(* The text screen of src/Kernel/Sources/arch/x86/vga_text.c, behind       *)
(* graphic.c, with its two kinds of writers: threads that print through    *)
(* vga_put_char, and the keyboard interrupt, which echoes what is typed    *)
(* through vga_console_write_keyboard.  Nothing excludes them: a writer is *)
(* a process whose steps are the groups of assignments of                  *)
(* vga_process_char, so one may run between two steps of another, on its   *)
(* CPU or on another.  Of what a cell shows the model keeps who wrote it.  *)
(***************************************************************************)
EXTENDS Integers

CONSTANTS LINES, COLS,  \* VGA_TEXT_SCREEN_LINE_SIZE, VGA_TEXT_SCREEN_COL_SIZE
          TAB,          \* 8
          Printers,     \* threads that print
          Keyboard,     \* the keyboard interrupt
          Printed,      \* kinds of characters threads print
          Typed         \* kinds of characters the keyboard sends

Kinds == {"text", "backspace", "tab", "newline", "formfeed", "return"}

ASSUME ConsoleAssumption ==
    /\ LINES \in Nat \ {0} /\ COLS \in Nat \ {0} /\ TAB \in Nat \ {0}
    /\ Keyboard \notin Printers
    /\ Printed \subseteq Kinds /\ Typed \subseteq Kinds

Writers == Printers \cup {Keyboard}

VARIABLES x, y,          \* screen_cursor
          px, py,        \* last_printed_cursor
          last_columns,  \* line -> its last column; entry LINES is the byte
                         \* past the array
          cell,          \* line -> column -> it shows a character of a thread,
                         \* not a typed one or a blank
          at             \* writer -> idle, or its step in vga_process_char

screenVars == <<x, y, px, py, last_columns, cell>>
consoleVars == <<x, y, px, py, last_columns, cell, at>>

Rows == 0 .. LINES - 1
Columns == 0 .. COLS - 1

ConsoleInit ==
    /\ x = 0 /\ y = 0 /\ px = 0 /\ py = 0
    /\ last_columns = [l \in 0 .. LINES |-> 0]
    /\ cell = [l \in Rows |-> [c \in Columns |-> FALSE]]
    /\ at = [w \in Writers |-> "idle"]

\* vga_print_char: nothing is written outside of the screen
Written(l, c, what) ==
    IF l \in Rows /\ c \in Columns THEN [cell EXCEPT ![l][c] = what] ELSE cell

Accepts(l, c) == c \in 0 .. COLS /\ l \in 0 .. LINES

\* vga_put_cursor_at: coordinates out of bounds leave the cursor
vga_put_cursor_at(l, c) ==
    /\ x' = IF Accepts(l, c) THEN c ELSE x
    /\ y' = IF Accepts(l, c) THEN l ELSE y

\* the cursor moves, and its new line is known to end there
MoveTo(l, c) ==
    /\ vga_put_cursor_at(l, c)
    /\ last_columns' = [last_columns EXCEPT ![y'] = x']

\* vga_scroll(SCROLL_DOWN, 1)
ScrollUp ==
    /\ cell' = [l \in Rows |-> IF l < LINES - 1 THEN cell[l + 1]
                               ELSE [c \in Columns |-> FALSE]]
    /\ last_columns' = [l \in 0 .. LINES |->
                           IF l < LINES - 1 THEN last_columns[l + 1]
                           ELSE IF l = LINES - 1 THEN 0 ELSE last_columns[l]]
    /\ vga_put_cursor_at(LINES - 1, 0)
    /\ IF 1 <= py THEN py' = py - 1 /\ px' = px ELSE py' = 0 /\ px' = 0

\* vga_put_char keeps the place; vga_console_write_keyboard does not
Done(w) == at' = [at EXCEPT ![w] = IF w = Keyboard THEN "idle" ELSE "mark"]
-----------------------------------------------------------------------------
\* A character 32 .. 126, in three steps: the cell and x++ ...
PutText(w) ==
    /\ at[w] = "idle"
    /\ cell' = Written(y, x, w \in Printers)
    /\ x' = x + 1
    /\ at' = [at EXCEPT ![w] = "line"]
    /\ UNCHANGED <<y, px, py, last_columns>>

\* Mutant: a full line is noticed one column late
EndOfLineLate(w) ==
    /\ at[w] = "line"
    /\ IF x > COLS THEN MoveTo(y + 1, 0) ELSE UNCHANGED <<x, y, last_columns>>
    /\ at' = [at EXCEPT ![w] = "screen"]
    /\ UNCHANGED <<px, py, cell>>

\* ... the end of the line; on the last line the cursor goes to line LINES,
\* and last_columns is written one byte past its end ...
EndOfLine(w) ==
    /\ at[w] = "line"
    /\ IF x > COLS - 1 THEN MoveTo(y + 1, 0) ELSE UNCHANGED <<x, y, last_columns>>
    /\ at' = [at EXCEPT ![w] = "screen"]
    /\ UNCHANGED <<px, py, cell>>

\* ... and the end of the screen
EndOfScreen(w) ==
    /\ at[w] = "screen"
    /\ IF y >= LINES THEN ScrollUp
       ELSE MoveTo(y, x) /\ UNCHANGED <<px, py, cell>>
    /\ Done(w)

EraseAt(l, c) ==
    /\ MoveTo(l, c)
    /\ cell' = Written(y', x', FALSE)

\* Mutant: the place of the last print is not looked at
BackspaceAnywhere(w) ==
    /\ at[w] = "idle"
    /\ x > 0 /\ EraseAt(y, x - 1)
    /\ Done(w)
    /\ UNCHANGED <<px, py>>

\* '\b' goes no further than the last printed place: on that line it stops
\* there; on a later one it goes on to the end of the line above
Backspace(w) ==
    /\ at[w] = "idle"
    /\ \/ /\ (py = y /\ x > px) \/ (py < y /\ x > 0)
          /\ EraseAt(y, x - 1)
       \/ /\ py < y /\ x = 0
          /\ LET end == IF last_columns[y - 1] >= COLS THEN COLS - 1
                        ELSE last_columns[y - 1]
             IN /\ last_columns' = [last_columns EXCEPT ![y - 1] = end]
                /\ vga_put_cursor_at(y - 1, end)
          /\ cell' = Written(y', x', FALSE)
       \/ /\ py > y \/ (py = y /\ x <= px)
          /\ UNCHANGED <<x, y, last_columns, cell>>
    /\ Done(w)
    /\ UNCHANGED <<px, py>>

Tab(w) ==
    /\ at[w] = "idle"
    /\ MoveTo(y, IF x + TAB < COLS - 1 THEN x + (TAB - (x % TAB)) ELSE COLS - 1)
    /\ Done(w)
    /\ UNCHANGED <<px, py, cell>>

NewLine(w) ==
    /\ at[w] = "idle"
    /\ IF y < LINES - 1 THEN MoveTo(y + 1, 0) /\ UNCHANGED <<px, py, cell>>
       ELSE ScrollUp
    /\ Done(w)

\* '\f': vga_clear_screen leaves the cursor
vga_clear_screen(w) ==
    /\ at[w] = "idle"
    /\ cell' = [l \in Rows |-> [c \in Columns |-> FALSE]]
    /\ last_columns' = [l \in 0 .. LINES |-> IF l \in Rows THEN 0 ELSE last_columns[l]]
    /\ Done(w)
    /\ UNCHANGED <<x, y, px, py>>

CarriageReturn(w) ==
    /\ at[w] = "idle"
    /\ MoveTo(y, 0)
    /\ Done(w)
    /\ UNCHANGED <<px, py, cell>>

\* the end of vga_put_char
MarkPrinted(w) ==
    /\ at[w] = "mark"
    /\ px' = x /\ py' = y
    /\ at' = [at EXCEPT ![w] = "idle"]
    /\ UNCHANGED <<x, y, last_columns, cell>>

CharsOf(w) == IF w = Keyboard THEN Typed ELSE Printed

vga_process_char(w) ==
    \/ "text" \in CharsOf(w) /\ PutText(w)
    \/ "backspace" \in CharsOf(w) /\ Backspace(w)
    \/ "tab" \in CharsOf(w) /\ Tab(w)
    \/ "newline" \in CharsOf(w) /\ NewLine(w)
    \/ "formfeed" \in CharsOf(w) /\ vga_clear_screen(w)
    \/ "return" \in CharsOf(w) /\ CarriageReturn(w)

ConsoleNext ==
    \E w \in Writers :
        vga_process_char(w) \/ EndOfLine(w) \/ EndOfScreen(w) \/ MarkPrinted(w)

ConsoleSpec == ConsoleInit /\ [][ConsoleNext]_consoleVars
-----------------------------------------------------------------------------
Printing == \E w \in Writers : at[w] \in {"line", "screen"}

\* However the writers interleave, the cursor is on the screen whenever no
\* character is being put, and never more than one line below it: a character
\* that fills the last line is noticed by the writer that is responsible, or by
\* another one, before any of them is done (vga_text.c 142-167).
CursorOnScreen ==
    /\ x \in Nat /\ y \in 0 .. LINES
    /\ ~Printing => x \in Columns /\ y \in Rows

Before(l, c) == l < py \/ (l = py /\ c < px)

\* What threads printed before the place of their last character is not erased
\* by the keyboard: a typed '\b' goes back over typed characters only, across
\* lines and scrolling (last_printed_cursor of vga_text.c), unless it arrives
\* in the middle of a character that a thread is printing.
TypedEraseStops ==
    [][Backspace(Keyboard) /\ (\A w \in Printers : at[w] = "idle") =>
           \A l \in Rows, c \in Columns :
               Before(l, c) /\ cell[l][c] => cell'[l][c]]_consoleVars
=============================================================================
